---- MODULE Spec2Model ----
(***************************************************************************)
(* The exemption wizard of azure-exemption-cli: the Bubble Tea model       *)
(* (tui.Model), its Update / handleKey transition functions, the commands  *)
(* that run the Azure client off the event loop, and the event loop that   *)
(* feeds key events and completion messages to Update one at a time.       *)
(*                                                                         *)
(* Representation of Go values:                                            *)
(*   - a path-like string (Subscription.ID, PolicyDefinitionID) is the     *)
(*     sequence of its "/"-separated segments, i.e. strings.Split(s, "/"); *)
(*     the empty string is <<"">>, "/subscriptions/a" is                   *)
(*     <<"", "subscriptions", "a">>;                                       *)
(*   - a text-input value (ticket, requesters, date) is the sequence of    *)
(*     its characters; the empty string is <<>>;                           *)
(*   - a formatted message (Status, error text) is the sequence of the     *)
(*     fragments that fmt.Sprintf concatenates; "" is <<>>;                *)
(*   - an error is [nil |-> BOOLEAN, msg |-> fragments].                   *)
(***************************************************************************)
EXTENDS Integers, Sequences, FiniteSets, TLC

VARIABLES m, inflight, msgs, quitPending, terminated, lastCmd, lastMsg, visited, events,
          pager, azArgs

vars ==
  <<m, inflight, msgs, quitPending, terminated, lastCmd, lastMsg, visited, events, pager,
    azArgs>>

(***************************************************************************)
(* Bounds of the model.                                                    *)
(***************************************************************************)
MaxSubs == 2
MaxAssignments == 2
MaxDefs == 2
MaxRGs == 1

\* The most pages the backend cuts a list of assignments into.
MaxPages == 2

\* What the user and the backend may do in a run: the longest list the
\* backend returns for each call, the longest text typed into an empty
\* input before it is submitted or deleted, the texts pasted into the
\* date input.
InvalidDate == <<"2","0","2","4","-","0","2","-","3","0">>

ListBudget ==
  [subs |-> MaxSubs, assignments |-> MaxAssignments, defs |-> MaxDefs,
   rgs |-> MaxRGs, inputLen |-> 1, dates |-> {InvalidDate}]

\* The longest text typed into an empty input where the text itself is what
\* is examined.
MaxInputLen == 2

ValidDate == <<"2","0","2","4","-","0","6","-","1","5">>

LeapDay == <<"2","0","2","4","-","0","2","-","2","9">>

NoLeapDay == <<"2","0","2","3","-","0","2","-","2","9">>

\* One entry in every list, and texts of up to MaxInputLen characters and
\* four dates to paste.
TextBudget ==
  [subs |-> 1, assignments |-> 1, defs |-> 1, rgs |-> 1, inputLen |-> MaxInputLen,
   dates |-> {InvalidDate, ValidDate, LeapDay, NoLeapDay}]

Min(a, b) == IF a < b THEN a ELSE b

Prefixes(pool, n) == { SubSeq(pool, 1, k) : k \in 0..Min(n, Len(pool)) }

Last(s) == s[Len(s)]

(***************************************************************************)
(* strings: ToLower / EqualFold on the segments that occur, HasPrefix and  *)
(* TrimSpace.                                                              *)
(***************************************************************************)
ToLower(s) ==
  CASE s = "policySetDefinitions" -> "policysetdefinitions"
    [] s = "Initiative" -> "initiative"
    [] s = "policyDefinitions" -> "policydefinitions"
    [] s = "managementGroups" -> "managementgroups"
    [] s = "Microsoft.Authorization" -> "microsoft.authorization"
    [] s = "Microsoft.Management" -> "microsoft.management"
    [] OTHER -> s

EqualFold(a, b) == ToLower(a) = ToLower(b)

\* strings.HasPrefix(s, "/"): the string starts with a separator, so its
\* first segment is empty and a second segment follows.
HasPrefixSlash(id) == Len(id) >= 2 /\ id[1] = ""

\* strings.HasPrefix(s, "/subscriptions/")
HasPrefixSubscriptions(id) == Len(id) >= 3 /\ id[1] = "" /\ id[2] = "subscriptions"

\* The fragments of a path-like string: its segments with "/" between them.
RECURSIVE Join(_)
Join(id) ==
  IF Len(id) = 0 THEN <<>>
  ELSE IF Len(id) = 1 THEN <<id[1]>>
  ELSE <<id[1], "/">> \o Join(Tail(id))

IsSpace(c) == c = " "

RECURSIVE TrimLeft(_)
TrimLeft(s) == IF Len(s) > 0 /\ IsSpace(s[1]) THEN TrimLeft(Tail(s)) ELSE s

RECURSIVE TrimRight(_)
TrimRight(s) ==
  IF Len(s) > 0 /\ IsSpace(s[Len(s)]) THEN TrimRight(SubSeq(s, 1, Len(s) - 1)) ELSE s

TrimSpace(s) == TrimRight(TrimLeft(s))

(***************************************************************************)
(* azure/types.go                                                          *)
(***************************************************************************)
Scope(s) == IF HasPrefixSlash(s.ID) THEN s.ID ELSE <<"", "subscriptions">> \o s.ID

ShortID(s) == IF ~HasPrefixSubscriptions(s.ID) THEN s.ID ELSE <<Last(s.ID)>>

DisplayLabel(p) == IF p.DisplayName # "" THEN p.DisplayName ELSE p.Name

EmptySubscription == [ID |-> <<"">>, Name |-> ""]

EmptyAssignment ==
  [ID |-> <<"">>, Name |-> "", DisplayName |-> "", Scope |-> <<"">>,
   PolicyDefinitionID |-> <<"">>]

(***************************************************************************)
(* errors                                                                  *)
(***************************************************************************)
NilErr == [nil |-> TRUE, msg |-> <<>>]

Errorf(frags) == [nil |-> FALSE, msg |-> frags]

(***************************************************************************)
(* What the Azure CLI can answer.  Every list the client returns is sorted *)
(* by lower-cased name (sort.Slice in each List* method), so the lists are *)
(* the prefixes of pools written in that order; B bounds their length.     *)
(***************************************************************************)
SubPool ==
  << [ID |-> <<"", "subscriptions", "a">>, Name |-> "Prod"],
     [ID |-> <<"b">>, Name |-> "Test"],
     [ID |-> <<"", "subscriptions", "c">>, Name |-> "Zeta"] >>

AssignmentPool ==
  << [ID |-> <<"", "subscriptions", "a", "providers", "Microsoft.Authorization",
               "policyAssignments", "as1">>,
      Name |-> "as1", DisplayName |-> "Initiative",
      Scope |-> <<"", "subscriptions", "a">>,
      PolicyDefinitionID |-> <<"", "providers", "Microsoft.Authorization",
                               "policySetDefinitions", "init1">>],
     [ID |-> <<"", "subscriptions", "a", "providers", "Microsoft.Authorization",
               "policyAssignments", "as2">>,
      Name |-> "single", DisplayName |-> "",
      Scope |-> <<"", "subscriptions", "a">>,
      PolicyDefinitionID |-> <<"", "providers", "Microsoft.Authorization",
                               "policyDefinitions", "pol1">>],
     [ID |-> <<"", "subscriptions", "a", "providers", "Microsoft.Authorization",
               "policyAssignments", "as3">>,
      Name |-> "unparsed", DisplayName |-> "",
      Scope |-> <<"", "subscriptions", "a">>,
      PolicyDefinitionID |-> <<"", "providers", "Microsoft.Authorization",
                               "policySetDefinitions">>] >>

DefPool ==
  << [PolicyDefinitionID |-> <<"", "providers", "Microsoft.Authorization",
                               "policyDefinitions", "d1">>,
      ReferenceID |-> "ref1", DisplayName |-> "Audit a"],
     [PolicyDefinitionID |-> <<"", "providers", "Microsoft.Authorization",
                               "policyDefinitions", "d2">>,
      ReferenceID |-> "ref2", DisplayName |-> "Audit b"],
     [PolicyDefinitionID |-> <<"", "providers", "Microsoft.Authorization",
                               "policyDefinitions", "d3">>,
      ReferenceID |-> "ref3", DisplayName |-> "Audit c"],
     [PolicyDefinitionID |-> <<"", "providers", "Microsoft.Authorization",
                               "policyDefinitions", "d4">>,
      ReferenceID |-> "ref4", DisplayName |-> "Audit d"] >>

RGPool ==
  << [ID |-> <<"", "subscriptions", "a", "resourceGroups", "rg1">>, Name |-> "rg1"],
     [ID |-> <<"", "subscriptions", "a", "resourceGroups", "rg2">>, Name |-> "rg2"] >>

OutputPool == {"exemption-json"}

\* What time.Now().AddDate(0, 0, 30).Format("2006-01-02") can be.
PrefillDates == { <<"2","0","2","4","-","0","7","-","1","5">> }

(***************************************************************************)
(* azure.Client                                                            *)
(***************************************************************************)
\* The index (1-based) of the segment parsePolicyID takes as the name: the
\* one after the last segment that is policySetDefinitions or
\* policyDefinitions; 0 when there is none.
RECURSIVE NameIndex(_, _)
NameIndex(parts, i) ==
  IF i = 0 THEN 0
  ELSE IF (EqualFold(parts[i], "policySetDefinitions")
           \/ EqualFold(parts[i], "policyDefinitions")) /\ i + 1 <= Len(parts)
       THEN i + 1
       ELSE NameIndex(parts, i - 1)

RECURSIVE FieldIndex(_, _, _)
FieldIndex(parts, key, i) ==
  IF i = 0 THEN 0
  ELSE IF EqualFold(parts[i], key) /\ i + 1 <= Len(parts) THEN i + 1
       ELSE FieldIndex(parts, key, i - 1)

parsePolicyID(id) ==
  LET n == NameIndex(id, Len(id))
      s == FieldIndex(id, "subscriptions", Len(id))
      g == FieldIndex(id, "managementGroups", Len(id))
  IN [name |-> IF n = 0 THEN "" ELSE id[n],
      subscription |-> IF s = 0 THEN "" ELSE id[s],
      managementGroup |-> IF g = 0 THEN "" ELSE id[g]]

\* strings.Contains(strings.ToLower(id), "policysetdefinitions"), on segments
ContainsPolicySet(id) == \E i \in 1..Len(id) : ToLower(id[i]) = "policysetdefinitions"

ListSubscriptions(B) ==
  { [value |-> <<>>, err |-> Errorf(<<"failed to list subscriptions">>)],
    [value |-> <<>>, err |-> Errorf(<<"unable to parse subscription data">>)] }
  \cup { [value |-> l, err |-> NilErr] : l \in Prefixes(SubPool, B.subs) }

ListResourceGroups(B, subscriptionID) ==
  { [value |-> <<>>, err |-> Errorf(<<"failed to list resource groups">>)] }
  \cup { [value |-> l, err |-> NilErr] : l \in Prefixes(RGPool, B.rgs) }

\* The lower-cased labels that occur, in the order of Go's < on strings.
LabelOrder == <<"initiative", "single", "unparsed">>

\* strings.ToLower(a.DisplayLabel()) < strings.ToLower(b.DisplayLabel())
LabelLess(a, b) ==
  \E i, j \in 1..Len(LabelOrder) :
     /\ LabelOrder[i] = ToLower(DisplayLabel(a))
     /\ LabelOrder[j] = ToLower(DisplayLabel(b))
     /\ i < j

RECURSIVE InsertByLabel(_, _)
InsertByLabel(a, sorted) ==
  IF Len(sorted) = 0 THEN <<a>>
  ELSE IF LabelLess(a, sorted[1]) THEN <<a>> \o sorted
  ELSE <<sorted[1]>> \o InsertByLabel(a, Tail(sorted))

\* sort.Slice(allAssignments, ...) by lower-cased label; the labels differ.
RECURSIVE SortByLabel(_)
SortByLabel(list) ==
  IF Len(list) = 0 THEN <<>>
  ELSE InsertByLabel(list[Len(list)], SortByLabel(SubSeq(list, 1, Len(list) - 1)))

\* The orders in which the entries of a list can come.
Orderings(list) ==
  { [i \in 1..Len(list) |-> list[f[i]]] :
      f \in { g \in [1..Len(list) -> 1..Len(list)] :
                \A i, j \in 1..Len(list) : g[i] = g[j] => i = j } }

\* The assignments the backend holds for a subscription, in the order in
\* which it serves them.
Backends(B) ==
  UNION { Orderings(l) : l \in Prefixes(AssignmentPool, B.assignments) }

\* The answers of one "az rest" call of ListAssignments when the backend
\* still has the assignments todo to serve and has served served pages: a
\* failure, or a page with the next assignments and a nextLink, which is
\* empty exactly on the page that serves the last of them; the backend cuts
\* the list into at most MaxPages pages.
azRestAssignments(todo, served) ==
  { [fails |-> TRUE, Value |-> <<>>, NextLink |-> ""] }
  \cup { [fails |-> FALSE, Value |-> SubSeq(todo, 1, Len(todo)), NextLink |-> ""] }
  \cup { [fails |-> FALSE, Value |-> SubSeq(todo, 1, k), NextLink |-> "next"] :
           k \in IF served + 1 < MaxPages THEN 0..Len(todo) ELSE {} }

\* The variables of a ListAssignments call: uri and allAssignments, with
\* what the backend has yet to serve and the pages it has served.
NoCall == [running |-> FALSE, uri |-> "", allAssignments |-> <<>>, todo |-> <<>>, pages |-> <<>>]

\* ListAssignments is entered: uri is the first page's.
ListAssignmentsEnter(B) ==
  { [running |-> TRUE, uri |-> "first", allAssignments |-> <<>>, todo |-> b, pages |-> <<>>] :
      b \in Backends(B) }

\* The iteration with allAssignments = result.Value in place of the append.
ListAssignmentsAppend_Replace(p, page) ==
  [p EXCEPT !.allAssignments = page.Value,
            !.uri = page.NextLink,
            !.todo = SubSeq(@, Len(page.Value) + 1, Len(@)),
            !.pages = Append(@, page.Value)]

\* One iteration of the loop "for uri != \"\"" that did not fail, in a call
\* with the variables p and for the page the backend answered.
ListAssignmentsAppend(p, page) ==
  [p EXCEPT !.allAssignments = @ \o page.Value,
            !.uri = page.NextLink,
            !.todo = SubSeq(@, Len(page.Value) + 1, Len(@)),
            !.pages = Append(@, page.Value)]

\* The two results of ListAssignments when an iteration failed.
ListAssignmentsFailed ==
  [value |-> <<>>, err |-> Errorf(<<"failed to list policy assignments">>)]

\* The two results of ListAssignments when the loop has ended.
ListAssignmentsReturn(p) == [value |-> SortByLabel(p.allAssignments), err |-> NilErr]

ListAssignmentDefinitions(B, assignment) ==
  IF assignment.PolicyDefinitionID = <<"">> THEN { [value |-> <<>>, err |-> NilErr] }
  ELSE IF ~ContainsPolicySet(assignment.PolicyDefinitionID)
  THEN { [value |-> <<>>, err |-> NilErr] }
  ELSE IF parsePolicyID(assignment.PolicyDefinitionID).name = ""
  THEN { [value |-> <<>>,
          err |-> Errorf(<<"could not parse policy set name from ID: ">>
                         \o Join(assignment.PolicyDefinitionID))] }
  ELSE { [value |-> <<>>,
          err |-> Errorf(<<"failed to load policy set definition">>)] }
       \cup { [value |-> l, err |-> NilErr] : l \in Prefixes(DefPool, B.defs) }

\* CreateExemption returning what az printed along with the error.
CreateExemption_OutputOnError(scope, assignment, referenceIDs, ticket, users, expirationDate) ==
  { [value |-> o, err |-> Errorf(<<"failed to create policy exemption">>)] : o \in OutputPool }
  \cup { [value |-> o, err |-> NilErr] : o \in OutputPool }

CreateExemption(scope, assignment, referenceIDs, ticket, users, expirationDate) ==
  { [value |-> "", err |-> Errorf(<<"failed to create policy exemption">>)] }
  \cup { [value |-> o, err |-> NilErr] : o \in OutputPool }

(***************************************************************************)
(* bubbles/textinput, as far as the wizard uses it: a value, a focus flag  *)
(* and a character limit.  Update ignores every message while blurred,     *)
(* inserts the runes of a key (cut to the room CharLimit leaves), deletes  *)
(* on backspace / ctrl+u and leaves the value alone on every other key.    *)
(***************************************************************************)
textinputNew(limit) == [value |-> <<>>, focus |-> FALSE, CharLimit |-> limit]

SetValue(ti, v) == [ti EXCEPT !.value = SubSeq(v, 1, Min(Len(v), ti.CharLimit))]

Focus(ti) == [ti EXCEPT !.focus = TRUE]

Blur(ti) == [ti EXCEPT !.focus = FALSE]

textinputUpdate(ti, msg) ==
  IF ~ti.focus THEN ti
  ELSE IF msg.Type \in {"KeyRunes", "KeySpace"}
  THEN LET avail == ti.CharLimit - Len(ti.value)
       IN IF avail <= 0 THEN ti
          ELSE [ti EXCEPT !.value = @ \o SubSeq(msg.Runes, 1, Min(avail, Len(msg.Runes)))]
  ELSE IF msg.Type = "KeyBackspace"
  THEN [ti EXCEPT !.value = SubSeq(@, 1, Len(@) - 1)]
  ELSE IF msg.Type = "KeyCtrlU"
  THEN [ti EXCEPT !.value = <<>>]
  ELSE ti

(***************************************************************************)
(* time.Parse("2006-01-02", value): four digits, "-", two digits, "-", two *)
(* digits and nothing else, a month in 1..12 and a day that exists in that *)
(* month of that year.                                                     *)
(***************************************************************************)
Digits == <<"0", "1", "2", "3", "4", "5", "6", "7", "8", "9">>

isDigit(c) == \E i \in 1..10 : Digits[i] = c

DigitVal(c) == (CHOOSE i \in 1..10 : Digits[i] = c) - 1

RECURSIVE atoi(_)
atoi(s) == IF Len(s) = 0 THEN 0 ELSE 10 * atoi(SubSeq(s, 1, Len(s) - 1)) + DigitVal(s[Len(s)])

isLeap(year) == year % 4 = 0 /\ (year % 100 # 0 \/ year % 400 = 0)

\* daysIn that gives February the 31 days of a long month.
daysIn_LongFebruary(month, year) ==
  IF month \in {4, 6, 9, 11} THEN 30
  ELSE 31

daysIn(month, year) ==
  IF month = 2 THEN (IF isLeap(year) THEN 29 ELSE 28)
  ELSE IF month \in {4, 6, 9, 11} THEN 30
  ELSE 31

\* TRUE iff time.Parse returns a nil error.
timeParseOK(value) ==
  /\ Len(value) = 10
  /\ \A i \in {1, 2, 3, 4, 6, 7, 9, 10} : isDigit(value[i])
  /\ value[5] = "-"
  /\ value[8] = "-"
  /\ LET year == atoi(SubSeq(value, 1, 4))
         month == atoi(SubSeq(value, 6, 7))
         day == atoi(SubSeq(value, 9, 10))
     IN /\ month >= 1
        /\ month <= 12
        /\ day >= 1
        /\ day <= daysIn(month, year)

\* azure.Client.CreateExemption: the command line.
\* t.Add(23*time.Hour + 59*time.Minute + 59*time.Second).Format(time.RFC3339)
\* for the t that time.Parse returns: the day at 23:59:59 UTC, the zero
\* time's day when the value does not parse (the error is dropped).
endOfDay(expirationDate) ==
  (IF timeParseOK(expirationDate) THEN expirationDate
   ELSE <<"0","0","0","1","-","0","1","-","0","1">>)
  \o <<"T","2","3",":","5","9",":","5","9","Z">>

Arg(flag, values) == [flag |-> flag, values |-> values]

\* CreateExemptionArgs that sends --expires-on whatever the date.
CreateExemptionArgs_AlwaysExpires(scope, assignment, referenceIDs, ticket, users, expirationDate) ==
  << Arg("policy exemption create", <<>>),
     Arg("--name", ticket),
     Arg("--scope", scope),
     Arg("--policy-assignment", assignment.ID),
     Arg("--display-name", <<scope, assignment.DisplayName, ticket>>),
     Arg("--description", <<ticket, users>>),
     Arg("--exemption-category", "Waiver"),
     Arg("-o", "json") >>
  \o << Arg("--expires-on", endOfDay(expirationDate)) >>
  \o (IF Cardinality(referenceIDs) > 0
      THEN << Arg("--policy-definition-reference-ids", referenceIDs) >> ELSE <<>>)

\* The arguments CreateExemption hands to runAzCommand, each flag with what
\* follows it; the reference ids follow theirs in the order the map was
\* ranged over: a set.
CreateExemptionArgs(scope, assignment, referenceIDs, ticket, users, expirationDate) ==
  << Arg("policy exemption create", <<>>),
     Arg("--name", ticket),
     Arg("--scope", scope),
     Arg("--policy-assignment", assignment.ID),
     Arg("--display-name", <<scope, assignment.DisplayName, ticket>>),
     Arg("--description", <<ticket, users>>),
     Arg("--exemption-category", "Waiver"),
     Arg("-o", "json") >>
  \o (IF expirationDate # <<>>
      THEN << Arg("--expires-on", endOfDay(expirationDate)) >> ELSE <<>>)
  \o (IF Cardinality(referenceIDs) > 0
      THEN << Arg("--policy-definition-reference-ids", referenceIDs) >> ELSE <<>>)

(***************************************************************************)
(* tui/model.go                                                            *)
(***************************************************************************)
Steps ==
  << "StepLoadingSubscriptions", "StepSelectSubscription", "StepLoadingAssignments",
     "StepSelectAssignment", "StepLoadingAssignmentDefinitions", "StepAssignmentScope",
     "StepSelectDefinitions", "StepLoadingResourceGroups", "StepSelectResourceGroup",
     "StepTicket", "StepUsers", "StepExpirationChoice", "StepExpirationDate",
     "StepConfirm", "StepCreating", "StepDone", "StepError" >>

NewModel ==
  [Step |-> "StepLoadingSubscriptions",
   Status |-> <<>>,
   Err |-> NilErr,
   Subscriptions |-> <<>>,
   Assignments |-> <<>>,
   AssignmentDefinitions |-> <<>>,
   ResourceGroups |-> <<>>,
   SelectedDefinitionIDs |-> {},
   Cursor |-> 0,
   SelectedSubscription |-> -1,
   SelectedAssignment |-> -1,
   SelectedResourceGroup |-> -1,
   PartialExemption |-> FALSE,
   TicketInput |-> Blur(textinputNew(128)),
   UserInput |-> Blur(textinputNew(256)),
   ExpirationInput |-> Blur(textinputNew(10)),
   Ticket |-> <<>>,
   RequestUser |-> <<>>,
   ExpirationDate |-> <<>>,
   CreateOutput |-> ""]

\* Go slices are indexed from 0, sequences from 1.
At(list, i) == list[i + 1]

CurrentSubscription(mm) ==
  IF mm.SelectedSubscription >= 0 /\ mm.SelectedSubscription < Len(mm.Subscriptions)
  THEN At(mm.Subscriptions, mm.SelectedSubscription)
  ELSE IF Len(mm.Subscriptions) = 0 THEN EmptySubscription
  ELSE At(mm.Subscriptions, 0)

CurrentAssignment(mm) ==
  IF mm.SelectedAssignment >= 0 /\ mm.SelectedAssignment < Len(mm.Assignments)
  THEN At(mm.Assignments, mm.SelectedAssignment)
  ELSE IF Len(mm.Assignments) = 0 THEN EmptyAssignment
  ELSE At(mm.Assignments, 0)

(***************************************************************************)
(* Commands (tea.Cmd) and messages (tea.Msg).  Update returns the model    *)
(* and a command; a record of the same shape stands for every command and  *)
(* for every message.                                                      *)
(***************************************************************************)
Cmd(kind) ==
  [kind |-> kind, sub |-> EmptySubscription, assignment |-> EmptyAssignment,
   scope |-> <<"">>, selectedDefinitionIDs |-> {}, ticket |-> <<>>, users |-> <<>>,
   expirationDate |-> <<>>]

NoCmd == Cmd("nil")

Quit == Cmd("tea.Quit")

\* The command textinput.Update returns (cursor blink, paste): not an
\* operation of the wizard.
textCmd == Cmd("textinput")

fetchSubscriptionsCmd == Cmd("fetchSubscriptionsCmd")

fetchAssignmentsCmd(sub) == [Cmd("fetchAssignmentsCmd") EXCEPT !.sub = sub]

fetchAssignmentDefinitionsCmd(assignment) ==
  [Cmd("fetchAssignmentDefinitionsCmd") EXCEPT !.assignment = assignment]

fetchResourceGroupsCmd(sub) == [Cmd("fetchResourceGroupsCmd") EXCEPT !.sub = sub]

\* createExemptionCmd that passes no reference ids.
createExemptionCmd_NoReferences(scope, assignment, selectedDefinitionIDs, ticket, users, expirationDate) ==
  [Cmd("createExemptionCmd") EXCEPT
     !.scope = scope, !.assignment = assignment,
     !.ticket = ticket, !.users = users, !.expirationDate = expirationDate]

createExemptionCmd(scope, assignment, selectedDefinitionIDs, ticket, users, expirationDate) ==
  [Cmd("createExemptionCmd") EXCEPT
     !.scope = scope, !.assignment = assignment,
     !.selectedDefinitionIDs = selectedDefinitionIDs,
     !.ticket = ticket, !.users = users, !.expirationDate = expirationDate]

Msg(type) ==
  [type |-> type, err |-> NilErr, subscriptions |-> <<>>, assignments |-> <<>>,
   definitions |-> <<>>, resourceGroups |-> <<>>, output |-> "",
   String |-> "", Type |-> "", Runes |-> <<>>]

KeyMsg(string, type, runes) ==
  [Msg("tea.KeyMsg") EXCEPT !.String = string, !.Type = type, !.Runes = runes]

\* Model.Init
ModelInit(mm) == fetchSubscriptionsCmd

\* Fail that leaves the status line as it was.
Fail_KeepStatus(mm, err) ==
  [m |-> [mm EXCEPT !.Err = err, !.Step = "StepError"],
   cmd |-> NoCmd]

\* Fail that leaves the step as it is.
Fail_KeepStep(mm, err) ==
  [m |-> [mm EXCEPT !.Err = err, !.Status = <<>>],
   cmd |-> NoCmd]

Fail(mm, err) ==
  [m |-> [mm EXCEPT !.Err = err, !.Step = "StepError", !.Status = <<>>],
   cmd |-> NoCmd]

(***************************************************************************)
(* tui/update.go: Model.handleKey.  The result is the model after the key  *)
(* and the command returned.                                               *)
(***************************************************************************)
Ret(mm, cmd) == [m |-> mm, cmd |-> cmd]

IsUp(msg) == msg.String \in {"up", "k"}

IsDown(msg) == msg.String \in {"down", "j"}

\* MoveCursor wrapping around at either end instead of stopping there.
MoveCursor_Wrap(mm, msg, last) ==
  IF msg.String \in {"up", "k"}
  THEN (IF mm.Cursor > 0 THEN [mm EXCEPT !.Cursor = @ - 1] ELSE [mm EXCEPT !.Cursor = last])
  ELSE IF msg.String \in {"down", "j"}
  THEN (IF mm.Cursor < last THEN [mm EXCEPT !.Cursor = @ + 1] ELSE [mm EXCEPT !.Cursor = 0])
  ELSE mm

\* The up / down cases shared by the list steps: last is the highest index
\* the cursor may move down to.
MoveCursor(mm, msg, last) ==
  IF IsUp(msg)
  THEN (IF mm.Cursor > 0 THEN [mm EXCEPT !.Cursor = @ - 1] ELSE mm)
  ELSE IF IsDown(msg)
  THEN (IF mm.Cursor < last THEN [mm EXCEPT !.Cursor = @ + 1] ELSE mm)
  ELSE mm

\* handleKeySelectSubscription that starts the fetch but stays in the
\* selection step.
handleKeySelectSubscription_StayInStep(mm, msg) ==
  IF msg.String = "enter"
  THEN IF Len(mm.Subscriptions) = 0 THEN Ret(mm, NoCmd)
       ELSE LET m1 == [mm EXCEPT !.SelectedSubscription = mm.Cursor]
                sub == CurrentSubscription(m1)
            IN Ret([m1 EXCEPT !.Status =
                          <<"Fetching policy assignments for ", sub.Name, "...">>],
                   fetchAssignmentsCmd(sub))
  ELSE Ret(MoveCursor(mm, msg, Len(mm.Subscriptions) - 1), NoCmd)

\* handleKeySelectSubscription that does not record the selection, so that
\* CurrentSubscription falls back to the first entry.
handleKeySelectSubscription_NoRecord(mm, msg) ==
  IF msg.String = "enter"
  THEN IF Len(mm.Subscriptions) = 0 THEN Ret(mm, NoCmd)
       ELSE LET m1 == [mm EXCEPT !.Step = "StepLoadingAssignments"]
                sub == CurrentSubscription(m1)
            IN Ret([m1 EXCEPT !.Status =
                          <<"Fetching policy assignments for ", sub.Name, "...">>],
                   fetchAssignmentsCmd(sub))
  ELSE Ret(MoveCursor(mm, msg, Len(mm.Subscriptions) - 1), NoCmd)

handleKeySelectSubscription(mm, msg) ==
  IF msg.String = "enter"
  THEN IF Len(mm.Subscriptions) = 0 THEN Ret(mm, NoCmd)
       ELSE LET m1 == [mm EXCEPT !.SelectedSubscription = mm.Cursor,
                                 !.Step = "StepLoadingAssignments"]
                sub == CurrentSubscription(m1)
            IN Ret([m1 EXCEPT !.Status =
                          <<"Fetching policy assignments for ", sub.Name, "...">>],
                   fetchAssignmentsCmd(sub))
  ELSE Ret(MoveCursor(mm, msg, Len(mm.Subscriptions) - 1), NoCmd)

\* handleKeySelectAssignment that fetches the definitions of the first
\* assignment of the list.
handleKeySelectAssignment_FetchFirst(mm, msg) ==
  IF msg.String = "enter"
  THEN IF Len(mm.Assignments) = 0 THEN Ret(mm, NoCmd)
       ELSE LET m1 == [mm EXCEPT !.SelectedAssignment = mm.Cursor,
                                 !.Step = "StepLoadingAssignmentDefinitions"]
                assign == At(mm.Assignments, 0)
            IN Ret([m1 EXCEPT !.Status =
                          <<"Fetching assignment details for ", DisplayLabel(assign), "...">>],
                   fetchAssignmentDefinitionsCmd(assign))
  ELSE Ret(MoveCursor(mm, msg, Len(mm.Assignments) - 1), NoCmd)

handleKeySelectAssignment(mm, msg) ==
  IF msg.String = "enter"
  THEN IF Len(mm.Assignments) = 0 THEN Ret(mm, NoCmd)
       ELSE LET m1 == [mm EXCEPT !.SelectedAssignment = mm.Cursor,
                                 !.Step = "StepLoadingAssignmentDefinitions"]
                assign == CurrentAssignment(m1)
            IN Ret([m1 EXCEPT !.Status =
                          <<"Fetching assignment details for ", DisplayLabel(assign), "...">>],
                   fetchAssignmentDefinitionsCmd(assign))
  ELSE Ret(MoveCursor(mm, msg, Len(mm.Assignments) - 1), NoCmd)

\* handleKeyAssignmentScope that does not set PartialExemption on option 1.
handleKeyAssignmentScope_NoPartial(mm, msg) ==
  IF msg.String = "enter"
  THEN IF mm.Cursor = 0
       THEN LET m1 == [mm EXCEPT !.PartialExemption = FALSE,
                                 !.Step = "StepLoadingResourceGroups",
                                 !.Status = <<"Loading resource groups...">>]
            IN Ret(m1, fetchResourceGroupsCmd(CurrentSubscription(m1)))
       ELSE Ret([mm EXCEPT !.Step = "StepSelectDefinitions",
                           !.Cursor = 0,
                           !.Status = <<"Select definitions to exempt (space to toggle, Enter to continue).">>],
                NoCmd)
  ELSE Ret(MoveCursor(mm, msg, 1), NoCmd)

\* handleKeyAssignmentScope that leaves the cursor on option 1.
handleKeyAssignmentScope_KeepCursor(mm, msg) ==
  IF msg.String = "enter"
  THEN IF mm.Cursor = 0
       THEN LET m1 == [mm EXCEPT !.PartialExemption = FALSE,
                                 !.Step = "StepLoadingResourceGroups",
                                 !.Status = <<"Loading resource groups...">>]
            IN Ret(m1, fetchResourceGroupsCmd(CurrentSubscription(m1)))
       ELSE Ret([mm EXCEPT !.PartialExemption = TRUE,
                           !.Step = "StepSelectDefinitions",
                           !.Status = <<"Select definitions to exempt (space to toggle, Enter to continue).">>],
                NoCmd)
  ELSE Ret(MoveCursor(mm, msg, 1), NoCmd)

handleKeyAssignmentScope(mm, msg) ==
  IF msg.String = "enter"
  THEN IF mm.Cursor = 0
       THEN LET m1 == [mm EXCEPT !.PartialExemption = FALSE,
                                 !.Step = "StepLoadingResourceGroups",
                                 !.Status = <<"Loading resource groups...">>]
            IN Ret(m1, fetchResourceGroupsCmd(CurrentSubscription(m1)))
       ELSE Ret([mm EXCEPT !.PartialExemption = TRUE,
                           !.Step = "StepSelectDefinitions",
                           !.Cursor = 0,
                           !.Status = <<"Select definitions to exempt (space to toggle, Enter to continue).">>],
                NoCmd)
  ELSE Ret(MoveCursor(mm, msg, 1), NoCmd)

\* The " " case that only ever adds the definition under the cursor.
ToggleDefinition_AddOnly(mm) ==
  IF Len(mm.AssignmentDefinitions) = 0 THEN mm
  ELSE LET ref == At(mm.AssignmentDefinitions, mm.Cursor)
       IN [mm EXCEPT !.SelectedDefinitionIDs = @ \cup {ref.ReferenceID}]

\* The " " case of StepSelectDefinitions.
ToggleDefinition(mm) ==
  IF Len(mm.AssignmentDefinitions) = 0 THEN mm
  ELSE LET ref == At(mm.AssignmentDefinitions, mm.Cursor)
       IN IF ref.ReferenceID \in mm.SelectedDefinitionIDs
          THEN [mm EXCEPT !.SelectedDefinitionIDs = @ \ {ref.ReferenceID}]
          ELSE [mm EXCEPT !.SelectedDefinitionIDs = @ \cup {ref.ReferenceID}]

\* handleKeySelectDefinitions without the test for an empty selection.
handleKeySelectDefinitions_NoCheck(mm, msg) ==
  IF msg.String = " " THEN Ret(ToggleDefinition(mm), NoCmd)
  ELSE IF msg.String = "enter"
  THEN IF Len(mm.AssignmentDefinitions) = 0 THEN Ret(mm, NoCmd)
       ELSE LET m1 == [mm EXCEPT !.Step = "StepLoadingResourceGroups",
                                 !.Status = <<"Loading resource groups...">>]
            IN Ret(m1, fetchResourceGroupsCmd(CurrentSubscription(m1)))
  ELSE Ret(MoveCursor(mm, msg, Len(mm.AssignmentDefinitions) - 1), NoCmd)

\* handleKeySelectDefinitions with the test of the selection inverted.
handleKeySelectDefinitions_TestInverted(mm, msg) ==
  IF msg.String = " " THEN Ret(ToggleDefinition(mm), NoCmd)
  ELSE IF msg.String = "enter"
  THEN IF Len(mm.AssignmentDefinitions) = 0 THEN Ret(mm, NoCmd)
       ELSE IF Cardinality(mm.SelectedDefinitionIDs) # 0
       THEN Ret([mm EXCEPT !.Status =
                       <<"Select at least one definition or choose full assignment.">>],
                NoCmd)
       ELSE LET m1 == [mm EXCEPT !.Step = "StepLoadingResourceGroups",
                                 !.Status = <<"Loading resource groups...">>]
            IN Ret(m1, fetchResourceGroupsCmd(CurrentSubscription(m1)))
  ELSE Ret(MoveCursor(mm, msg, Len(mm.AssignmentDefinitions) - 1), NoCmd)

handleKeySelectDefinitions(mm, msg) ==
  IF msg.String = " " THEN Ret(ToggleDefinition(mm), NoCmd)
  ELSE IF msg.String = "enter"
  THEN IF Len(mm.AssignmentDefinitions) = 0 THEN Ret(mm, NoCmd)
       ELSE IF Cardinality(mm.SelectedDefinitionIDs) = 0
       THEN Ret([mm EXCEPT !.Status =
                       <<"Select at least one definition or choose full assignment.">>],
                NoCmd)
       ELSE LET m1 == [mm EXCEPT !.Step = "StepLoadingResourceGroups",
                                 !.Status = <<"Loading resource groups...">>]
            IN Ret(m1, fetchResourceGroupsCmd(CurrentSubscription(m1)))
  ELSE Ret(MoveCursor(mm, msg, Len(mm.AssignmentDefinitions) - 1), NoCmd)

\* handleKeySelectResourceGroup recording the index after the cursor.
handleKeySelectResourceGroup_OffByOne(mm, msg) ==
  IF msg.String = "enter"
  THEN IF Len(mm.ResourceGroups) = 0 THEN Ret(mm, NoCmd)
       ELSE Ret([mm EXCEPT !.SelectedResourceGroup = mm.Cursor + 1,
                           !.Step = "StepTicket",
                           !.TicketInput = Focus(SetValue(@, <<>>)),
                           !.Status = <<"Provide the tracking ticket number linked to this exemption:">>],
                NoCmd)
  ELSE Ret(MoveCursor(mm, msg, Len(mm.ResourceGroups) - 1), NoCmd)

\* handleKeySelectResourceGroup that does not record the selection.
handleKeySelectResourceGroup_NoRecord(mm, msg) ==
  IF msg.String = "enter"
  THEN IF Len(mm.ResourceGroups) = 0 THEN Ret(mm, NoCmd)
       ELSE Ret([mm EXCEPT !.Step = "StepTicket",
                           !.TicketInput = Focus(SetValue(@, <<>>)),
                           !.Status = <<"Provide the tracking ticket number linked to this exemption:">>],
                NoCmd)
  ELSE Ret(MoveCursor(mm, msg, Len(mm.ResourceGroups) - 1), NoCmd)

handleKeySelectResourceGroup(mm, msg) ==
  IF msg.String = "enter"
  THEN IF Len(mm.ResourceGroups) = 0 THEN Ret(mm, NoCmd)
       ELSE Ret([mm EXCEPT !.SelectedResourceGroup = mm.Cursor,
                           !.Step = "StepTicket",
                           !.TicketInput = Focus(SetValue(@, <<>>)),
                           !.Status = <<"Provide the tracking ticket number linked to this exemption:">>],
                NoCmd)
  ELSE Ret(MoveCursor(mm, msg, Len(mm.ResourceGroups) - 1), NoCmd)

\* handleKeyTicket that tests and stores the input as typed, without
\* strings.TrimSpace.
handleKeyTicket_NoTrim(mm, msg) ==
  LET m1 == [mm EXCEPT !.TicketInput = textinputUpdate(@, msg)]
      value == m1.TicketInput.value
  IN IF msg.Type = "KeyEnter"
     THEN IF value = <<>>
          THEN Ret([m1 EXCEPT !.Status = <<"A ticket number is required.">>], textCmd)
          ELSE Ret([m1 EXCEPT !.Ticket = value,
                              !.Step = "StepUsers",
                              !.TicketInput = Blur(@),
                              !.UserInput = Focus(SetValue(@, <<>>)),
                              !.Status = <<"Who is requesting this exemption? Provide one or more names.">>],
                   textCmd)
     ELSE Ret(m1, textCmd)

handleKeyTicket(mm, msg) ==
  LET m1 == [mm EXCEPT !.TicketInput = textinputUpdate(@, msg)]
      value == TrimSpace(m1.TicketInput.value)
  IN IF msg.Type = "KeyEnter"
     THEN IF value = <<>>
          THEN Ret([m1 EXCEPT !.Status = <<"A ticket number is required.">>], textCmd)
          ELSE Ret([m1 EXCEPT !.Ticket = value,
                              !.Step = "StepUsers",
                              !.TicketInput = Blur(@),
                              !.UserInput = Focus(SetValue(@, <<>>)),
                              !.Status = <<"Who is requesting this exemption? Provide one or more names.">>],
                   textCmd)
     ELSE Ret(m1, textCmd)

\* handleKeyUsers that stores the requesters on every key.
handleKeyUsers_StoreWhileTyping(mm, msg) ==
  LET m1 == [mm EXCEPT !.UserInput = textinputUpdate(@, msg)]
      value == TrimSpace(m1.UserInput.value)
  IN IF msg.Type = "KeyEnter"
     THEN IF value = <<>>
          THEN Ret([m1 EXCEPT !.Status = <<"At least one requester name is required.">>],
                   textCmd)
          ELSE Ret([m1 EXCEPT !.RequestUser = value,
                              !.Step = "StepExpirationChoice",
                              !.UserInput = Blur(@),
                              !.Cursor = 0,
                              !.Status = <<"Set an expiration date for this exemption?">>],
                   textCmd)
     ELSE Ret([m1 EXCEPT !.RequestUser = value], textCmd)

handleKeyUsers(mm, msg) ==
  LET m1 == [mm EXCEPT !.UserInput = textinputUpdate(@, msg)]
      value == TrimSpace(m1.UserInput.value)
  IN IF msg.Type = "KeyEnter"
     THEN IF value = <<>>
          THEN Ret([m1 EXCEPT !.Status = <<"At least one requester name is required.">>],
                   textCmd)
          ELSE Ret([m1 EXCEPT !.RequestUser = value,
                              !.Step = "StepExpirationChoice",
                              !.UserInput = Blur(@),
                              !.Cursor = 0,
                              !.Status = <<"Set an expiration date for this exemption?">>],
                   textCmd)
     ELSE Ret(m1, textCmd)

\* handleKeyExpirationChoice with the two options exchanged.
handleKeyExpirationChoice_Swapped(mm, msg, now30) ==
  IF msg.String = "enter"
  THEN IF mm.Cursor # 0
       THEN Ret([mm EXCEPT !.ExpirationDate = <<>>,
                           !.Step = "StepConfirm",
                           !.Status = <<"Review the summary and press Enter to create the exemption.">>],
                NoCmd)
       ELSE Ret([mm EXCEPT !.Step = "StepExpirationDate",
                           !.ExpirationInput = Focus(SetValue(@, now30)),
                           !.Status = <<"Enter expiration date (YYYY-MM-DD):">>],
                NoCmd)
  ELSE Ret(MoveCursor(mm, msg, 1), NoCmd)

\* now30 is time.Now().AddDate(0, 0, 30).Format("2006-01-02").
handleKeyExpirationChoice(mm, msg, now30) ==
  IF msg.String = "enter"
  THEN IF mm.Cursor = 0
       THEN Ret([mm EXCEPT !.ExpirationDate = <<>>,
                           !.Step = "StepConfirm",
                           !.Status = <<"Review the summary and press Enter to create the exemption.">>],
                NoCmd)
       ELSE Ret([mm EXCEPT !.Step = "StepExpirationDate",
                           !.ExpirationInput = Focus(SetValue(@, now30)),
                           !.Status = <<"Enter expiration date (YYYY-MM-DD):">>],
                NoCmd)
  ELSE Ret(MoveCursor(mm, msg, 1), NoCmd)

\* handleKeyExpirationDate that returns to the choice of options when the
\* date is refused.
handleKeyExpirationDate_BackOnInvalid(mm, msg) ==
  LET m1 == [mm EXCEPT !.ExpirationInput = textinputUpdate(@, msg)]
      value == TrimSpace(m1.ExpirationInput.value)
  IN IF msg.Type = "KeyEnter"
     THEN IF value = <<>>
          THEN Ret([m1 EXCEPT !.Status = <<"Expiration date is required.">>], textCmd)
          ELSE IF ~timeParseOK(value)
          THEN Ret([m1 EXCEPT !.Step = "StepExpirationChoice",
                              !.Status = <<"Invalid date format. Please use YYYY-MM-DD.">>],
                   textCmd)
          ELSE Ret([m1 EXCEPT !.ExpirationDate = value,
                              !.Step = "StepConfirm",
                              !.ExpirationInput = Blur(@),
                              !.Status = <<"Review the summary and press Enter to create the exemption.">>],
                   textCmd)
     ELSE Ret(m1, textCmd)

handleKeyExpirationDate(mm, msg) ==
  LET m1 == [mm EXCEPT !.ExpirationInput = textinputUpdate(@, msg)]
      value == TrimSpace(m1.ExpirationInput.value)
  IN IF msg.Type = "KeyEnter"
     THEN IF value = <<>>
          THEN Ret([m1 EXCEPT !.Status = <<"Expiration date is required.">>], textCmd)
          ELSE IF ~timeParseOK(value)
          THEN Ret([m1 EXCEPT !.Status = <<"Invalid date format. Please use YYYY-MM-DD.">>],
                   textCmd)
          ELSE Ret([m1 EXCEPT !.ExpirationDate = value,
                              !.Step = "StepConfirm",
                              !.ExpirationInput = Blur(@),
                              !.Status = <<"Review the summary and press Enter to create the exemption.">>],
                   textCmd)
     ELSE Ret(m1, textCmd)

\* handleKeyConfirm that does not look at the ticket.
handleKeyConfirm_NoTicketCheck(mm, msg) ==
  IF msg.Type = "KeyEnter"
  THEN IF \/ mm.SelectedAssignment < 0
          \/ mm.RequestUser = <<>>
          \/ mm.SelectedSubscription < 0
          \/ mm.SelectedResourceGroup < 0
       THEN Ret([mm EXCEPT !.Status = <<"Missing information. Use q to abort.">>], NoCmd)
       ELSE LET m1 == [mm EXCEPT !.Step = "StepCreating"]
                assign == CurrentAssignment(m1)
                rg == At(m1.ResourceGroups, m1.SelectedResourceGroup)
            IN Ret([m1 EXCEPT !.Status = <<"Creating Azure Policy exemption...">>],
                   createExemptionCmd(rg.ID, assign, m1.SelectedDefinitionIDs,
                                      m1.Ticket, m1.RequestUser, m1.ExpirationDate))
  ELSE Ret(mm, NoCmd)

\* handleKeyConfirm that starts the creation without entering StepCreating.
handleKeyConfirm_StayInStep(mm, msg) ==
  IF msg.Type = "KeyEnter"
  THEN IF \/ mm.SelectedAssignment < 0
          \/ mm.Ticket = <<>>
          \/ mm.RequestUser = <<>>
          \/ mm.SelectedSubscription < 0
          \/ mm.SelectedResourceGroup < 0
       THEN Ret([mm EXCEPT !.Status = <<"Missing information. Use q to abort.">>], NoCmd)
       ELSE LET assign == CurrentAssignment(mm)
                rg == At(mm.ResourceGroups, mm.SelectedResourceGroup)
            IN Ret([mm EXCEPT !.Status = <<"Creating Azure Policy exemption...">>],
                   createExemptionCmd(rg.ID, assign, mm.SelectedDefinitionIDs,
                                      mm.Ticket, mm.RequestUser, mm.ExpirationDate))
  ELSE Ret(mm, NoCmd)

handleKeyConfirm(mm, msg) ==
  IF msg.Type = "KeyEnter"
  THEN IF \/ mm.SelectedAssignment < 0
          \/ mm.Ticket = <<>>
          \/ mm.RequestUser = <<>>
          \/ mm.SelectedSubscription < 0
          \/ mm.SelectedResourceGroup < 0
       THEN Ret([mm EXCEPT !.Status = <<"Missing information. Use q to abort.">>], NoCmd)
       ELSE LET m1 == [mm EXCEPT !.Step = "StepCreating"]
                assign == CurrentAssignment(m1)
                rg == At(m1.ResourceGroups, m1.SelectedResourceGroup)
            IN Ret([m1 EXCEPT !.Status = <<"Creating Azure Policy exemption...">>],
                   createExemptionCmd(rg.ID, assign, m1.SelectedDefinitionIDs,
                                      m1.Ticket, m1.RequestUser, m1.ExpirationDate))
  ELSE Ret(mm, NoCmd)

\* handleKey for which Enter aborts a step that has no keys of its own.
handleKey_EnterAborts(mm, msg, now30) ==
  CASE mm.Step = "StepSelectSubscription" -> handleKeySelectSubscription(mm, msg)
    [] mm.Step = "StepSelectAssignment" -> handleKeySelectAssignment(mm, msg)
    [] mm.Step = "StepAssignmentScope" -> handleKeyAssignmentScope(mm, msg)
    [] mm.Step = "StepSelectDefinitions" -> handleKeySelectDefinitions(mm, msg)
    [] mm.Step = "StepSelectResourceGroup" -> handleKeySelectResourceGroup(mm, msg)
    [] mm.Step = "StepTicket" -> handleKeyTicket(mm, msg)
    [] mm.Step = "StepUsers" -> handleKeyUsers(mm, msg)
    [] mm.Step = "StepExpirationChoice" -> handleKeyExpirationChoice(mm, msg, now30)
    [] mm.Step = "StepExpirationDate" -> handleKeyExpirationDate(mm, msg)
    [] mm.Step = "StepConfirm" -> handleKeyConfirm(mm, msg)
    [] OTHER -> IF msg.String = "enter" THEN Fail(mm, Errorf(<<"aborted">>))
                ELSE Ret(mm, NoCmd)

handleKey(mm, msg, now30) ==
  CASE mm.Step = "StepSelectSubscription" -> handleKeySelectSubscription(mm, msg)
    [] mm.Step = "StepSelectAssignment" -> handleKeySelectAssignment(mm, msg)
    [] mm.Step = "StepAssignmentScope" -> handleKeyAssignmentScope(mm, msg)
    [] mm.Step = "StepSelectDefinitions" -> handleKeySelectDefinitions(mm, msg)
    [] mm.Step = "StepSelectResourceGroup" -> handleKeySelectResourceGroup(mm, msg)
    [] mm.Step = "StepTicket" -> handleKeyTicket(mm, msg)
    [] mm.Step = "StepUsers" -> handleKeyUsers(mm, msg)
    [] mm.Step = "StepExpirationChoice" -> handleKeyExpirationChoice(mm, msg, now30)
    [] mm.Step = "StepExpirationDate" -> handleKeyExpirationDate(mm, msg)
    [] mm.Step = "StepConfirm" -> handleKeyConfirm(mm, msg)
    [] OTHER -> Ret(mm, NoCmd)

(***************************************************************************)
(* tui/update.go: Model.Update                                             *)
(***************************************************************************)
\* UpdateSubscriptionsLoaded that takes an empty list as a list to select
\* from.
UpdateSubscriptionsLoaded_AcceptEmpty(mm, msg) ==
  IF ~msg.err.nil THEN Fail(mm, msg.err)
  ELSE Ret([mm EXCEPT !.Subscriptions = msg.subscriptions,
                      !.Cursor = 0,
                      !.SelectedSubscription = -1,
                      !.Step = "StepSelectSubscription",
                      !.Status = <<"Use up/down to highlight a subscription and press Enter to continue.">>],
           NoCmd)

\* UpdateSubscriptionsLoaded that keeps only the first subscription.
UpdateSubscriptionsLoaded_FirstOnly(mm, msg) ==
  IF ~msg.err.nil THEN Fail(mm, msg.err)
  ELSE IF Len(msg.subscriptions) = 0
  THEN Fail(mm, Errorf(<<"no subscriptions returned by Azure CLI">>))
  ELSE Ret([mm EXCEPT !.Subscriptions = <<msg.subscriptions[1]>>,
                      !.Cursor = 0,
                      !.SelectedSubscription = -1,
                      !.Step = "StepSelectSubscription",
                      !.Status = <<"Use up/down to highlight a subscription and press Enter to continue.">>],
           NoCmd)

UpdateSubscriptionsLoaded(mm, msg) ==
  IF ~msg.err.nil THEN Fail(mm, msg.err)
  ELSE IF Len(msg.subscriptions) = 0
  THEN Fail(mm, Errorf(<<"no subscriptions returned by Azure CLI">>))
  ELSE Ret([mm EXCEPT !.Subscriptions = msg.subscriptions,
                      !.Cursor = 0,
                      !.SelectedSubscription = -1,
                      !.Step = "StepSelectSubscription",
                      !.Status = <<"Use up/down to highlight a subscription and press Enter to continue.">>],
           NoCmd)

\* UpdateAssignmentsLoaded that names the first subscription of the list in
\* the error for an empty list.
UpdateAssignmentsLoaded_FirstSubscription(mm, msg) ==
  IF ~msg.err.nil THEN Fail(mm, msg.err)
  ELSE IF Len(msg.assignments) = 0
  THEN LET sub == At(mm.Subscriptions, 0)
       IN Fail(mm, Errorf(<<"no policy assignments were returned for subscription ",
                            sub.Name, " (">> \o Join(ShortID(sub)) \o <<")">>))
  ELSE Ret([mm EXCEPT !.Assignments = msg.assignments,
                      !.SelectedAssignment = -1,
                      !.AssignmentDefinitions = <<>>,
                      !.SelectedDefinitionIDs = {},
                      !.PartialExemption = FALSE,
                      !.Cursor = 0,
                      !.Step = "StepSelectAssignment",
                      !.Status = <<"Use up/down to highlight an assignment and press Enter to continue.">>],
           NoCmd)

\* The assignmentsLoadedMsg case without the reset of the definition
\* selection.
UpdateAssignmentsLoaded_KeepSelection(mm, msg) ==
  IF ~msg.err.nil THEN Fail(mm, msg.err)
  ELSE IF Len(msg.assignments) = 0
  THEN LET sub == CurrentSubscription(mm)
       IN Fail(mm, Errorf(<<"no policy assignments were returned for subscription ",
                            sub.Name, " (">> \o Join(ShortID(sub)) \o <<")">>))
  ELSE Ret([mm EXCEPT !.Assignments = msg.assignments,
                      !.SelectedAssignment = -1,
                      !.AssignmentDefinitions = <<>>,
                      !.Cursor = 0,
                      !.Step = "StepSelectAssignment",
                      !.Status = <<"Use up/down to highlight an assignment and press Enter to continue.">>],
           NoCmd)

UpdateAssignmentsLoaded(mm, msg) ==
  IF ~msg.err.nil THEN Fail(mm, msg.err)
  ELSE IF Len(msg.assignments) = 0
  THEN LET sub == CurrentSubscription(mm)
       IN Fail(mm, Errorf(<<"no policy assignments were returned for subscription ",
                            sub.Name, " (">> \o Join(ShortID(sub)) \o <<")">>))
  ELSE Ret([mm EXCEPT !.Assignments = msg.assignments,
                      !.SelectedAssignment = -1,
                      !.AssignmentDefinitions = <<>>,
                      !.SelectedDefinitionIDs = {},
                      !.PartialExemption = FALSE,
                      !.Cursor = 0,
                      !.Step = "StepSelectAssignment",
                      !.Status = <<"Use up/down to highlight an assignment and press Enter to continue.">>],
           NoCmd)

\* len(msg.definitions) > 1 with the comparison against 0.
severalDefinitions_AtLeastOne(definitions) == Len(definitions) > 0

\* len(msg.definitions) > 1 with the comparison against 2.
severalDefinitions_MoreThanTwo(definitions) == Len(definitions) > 2

\* len(msg.definitions) > 1 replaced by a test that never holds.
severalDefinitions_Never(definitions) == FALSE

\* The test that sends the wizard to the scope step.
severalDefinitions(definitions) == Len(definitions) > 1

\* UpdateAssignmentDefinitionsLoaded that forgets to start the resource-group
\* fetch when it skips the scope step.
UpdateAssignmentDefinitionsLoaded_NoFetch(mm, msg) ==
  IF ~msg.err.nil THEN Fail(mm, msg.err)
  ELSE LET m1 == [mm EXCEPT !.AssignmentDefinitions = msg.definitions,
                            !.SelectedDefinitionIDs = {},
                            !.PartialExemption = FALSE]
       IN IF severalDefinitions(msg.definitions)
          THEN Ret([m1 EXCEPT !.Step = "StepAssignmentScope",
                              !.Cursor = 0,
                              !.Status = <<"Exempt entire assignment or select specific definitions?">>],
                   NoCmd)
          ELSE Ret([m1 EXCEPT !.Step = "StepLoadingResourceGroups",
                              !.Status = <<"Loading resource groups...">>],
                   NoCmd)

UpdateAssignmentDefinitionsLoaded(mm, msg) ==
  IF ~msg.err.nil THEN Fail(mm, msg.err)
  ELSE LET m1 == [mm EXCEPT !.AssignmentDefinitions = msg.definitions,
                            !.SelectedDefinitionIDs = {},
                            !.PartialExemption = FALSE]
       IN IF severalDefinitions(msg.definitions)
          THEN Ret([m1 EXCEPT !.Step = "StepAssignmentScope",
                              !.Cursor = 0,
                              !.Status = <<"Exempt entire assignment or select specific definitions?">>],
                   NoCmd)
          ELSE LET m2 == [m1 EXCEPT !.PartialExemption = FALSE,
                                    !.Step = "StepLoadingResourceGroups",
                                    !.Status = <<"Loading resource groups...">>]
               IN Ret(m2, fetchResourceGroupsCmd(CurrentSubscription(m2)))

\* UpdateResourceGroupsLoaded that puts the "Entire Subscription" entry
\* after the fetched groups.
UpdateResourceGroupsLoaded_Append(mm, msg) ==
  IF ~msg.err.nil THEN Fail(mm, msg.err)
  ELSE LET sub == CurrentSubscription(mm)
           entireSub == [Name |-> "Entire Subscription", ID |-> Scope(sub)]
       IN Ret([mm EXCEPT !.ResourceGroups = msg.resourceGroups \o <<entireSub>>,
                         !.SelectedResourceGroup = -1,
                         !.Cursor = 0,
                         !.Step = "StepSelectResourceGroup",
                         !.Status = <<"Select the scope for the exemption (Subscription or Resource Group).">>],
              NoCmd)

\* Update dropping the resource-groups message.
UpdateResourceGroupsLoaded_Dropped(mm, msg) == Ret(mm, NoCmd)

\* The resourceGroupsLoadedMsg case without the "Entire Subscription"
\* entry.
UpdateResourceGroupsLoaded_NoEntireSubscription(mm, msg) ==
  IF ~msg.err.nil THEN Fail(mm, msg.err)
  ELSE Ret([mm EXCEPT !.ResourceGroups = msg.resourceGroups,
                      !.SelectedResourceGroup = -1,
                      !.Cursor = 0,
                      !.Step = "StepSelectResourceGroup",
                      !.Status = <<"Select the scope for the exemption (Subscription or Resource Group).">>],
           NoCmd)

UpdateResourceGroupsLoaded(mm, msg) ==
  IF ~msg.err.nil THEN Fail(mm, msg.err)
  ELSE LET sub == CurrentSubscription(mm)
           entireSub == [Name |-> "Entire Subscription", ID |-> Scope(sub)]
       IN Ret([mm EXCEPT !.ResourceGroups = <<entireSub>> \o msg.resourceGroups,
                         !.SelectedResourceGroup = -1,
                         !.Cursor = 0,
                         !.Step = "StepSelectResourceGroup",
                         !.Status = <<"Select the scope for the exemption (Subscription or Resource Group).">>],
              NoCmd)

\* UpdateExemptionCreated that does not keep the output.
UpdateExemptionCreated_DropOutput(mm, msg) ==
  IF ~msg.err.nil THEN Fail(mm, msg.err)
  ELSE Ret([mm EXCEPT !.Step = "StepDone",
                      !.Status = <<"Exemption created successfully. Press q to exit.">>],
           NoCmd)

UpdateExemptionCreated(mm, msg) ==
  IF ~msg.err.nil THEN Fail(mm, msg.err)
  ELSE Ret([mm EXCEPT !.CreateOutput = msg.output,
                      !.Step = "StepDone",
                      !.Status = <<"Exemption created successfully. Press q to exit.">>],
           NoCmd)

\* Update for which only ctrl+c, not q, is a quit key.
Update_QuitOnlyCtrlC(mm, msg, now30) ==
  CASE msg.type = "tea.KeyMsg" ->
         IF msg.String \in {"ctrl+c"} THEN Ret(mm, Quit)
         ELSE handleKey(mm, msg, now30)
    [] msg.type = "subscriptionsLoadedMsg" -> UpdateSubscriptionsLoaded(mm, msg)
    [] msg.type = "assignmentsLoadedMsg" -> UpdateAssignmentsLoaded(mm, msg)
    [] msg.type = "assignmentDefinitionsLoadedMsg" ->
         UpdateAssignmentDefinitionsLoaded(mm, msg)
    [] msg.type = "resourceGroupsLoadedMsg" -> UpdateResourceGroupsLoaded(mm, msg)
    [] msg.type = "exemptionCreatedMsg" -> UpdateExemptionCreated(mm, msg)
    [] OTHER -> Ret(mm, NoCmd)

Update(mm, msg, now30) ==
  CASE msg.type = "tea.KeyMsg" ->
         IF msg.String \in {"ctrl+c", "q"} THEN Ret(mm, Quit)
         ELSE handleKey(mm, msg, now30)
    [] msg.type = "subscriptionsLoadedMsg" -> UpdateSubscriptionsLoaded(mm, msg)
    [] msg.type = "assignmentsLoadedMsg" -> UpdateAssignmentsLoaded(mm, msg)
    [] msg.type = "assignmentDefinitionsLoadedMsg" ->
         UpdateAssignmentDefinitionsLoaded(mm, msg)
    [] msg.type = "resourceGroupsLoadedMsg" -> UpdateResourceGroupsLoaded(mm, msg)
    [] msg.type = "exemptionCreatedMsg" -> UpdateExemptionCreated(mm, msg)
    [] OTHER -> Ret(mm, NoCmd)

(***************************************************************************)
(* main.go: the commands.  Each runs one client call on a goroutine of its *)
(* own and returns one message carrying the call's two results.            *)
(***************************************************************************)
runFetchSubscriptions(B, cmd) ==
  { [Msg("subscriptionsLoadedMsg") EXCEPT !.subscriptions = r.value, !.err = r.err]
      : r \in ListSubscriptions(B) }

\* r is what ListAssignments returned.
runFetchAssignments(r) ==
  [Msg("assignmentsLoadedMsg") EXCEPT !.assignments = r.value, !.err = r.err]

runFetchAssignmentDefinitions(B, cmd) ==
  { [Msg("assignmentDefinitionsLoadedMsg") EXCEPT !.definitions = r.value, !.err = r.err]
      : r \in ListAssignmentDefinitions(B, cmd.assignment) }

runFetchResourceGroups(B, cmd) ==
  { [Msg("resourceGroupsLoadedMsg") EXCEPT !.resourceGroups = r.value, !.err = r.err]
      : r \in ListResourceGroups(B, ShortID(cmd.sub)) }

\* refs is built by ranging over the map, in no fixed order: a set.
runCreateExemption(B, cmd) ==
  LET refs == cmd.selectedDefinitionIDs
  IN { [Msg("exemptionCreatedMsg") EXCEPT !.output = r.value, !.err = r.err]
         : r \in CreateExemption(cmd.scope, cmd.assignment, refs, cmd.ticket,
                                 cmd.users, cmd.expirationDate) }

\* The arguments of the az command the create command's goroutine runs.
runCreateExemptionArgs(cmd) ==
  CreateExemptionArgs(cmd.scope, cmd.assignment, cmd.selectedDefinitionIDs, cmd.ticket,
                      cmd.users, cmd.expirationDate)

OperationKinds ==
  {"fetchSubscriptionsCmd", "fetchAssignmentsCmd", "fetchAssignmentDefinitionsCmd",
   "fetchResourceGroupsCmd", "createExemptionCmd"}

(***************************************************************************)
(* The keys the user presses.                                              *)
(***************************************************************************)
KeyUp == KeyMsg("up", "KeyUp", <<>>)
KeyDown == KeyMsg("down", "KeyDown", <<>>)
KeyK == KeyMsg("k", "KeyRunes", <<"k">>)
KeyJ == KeyMsg("j", "KeyRunes", <<"j">>)
KeyEnter == KeyMsg("enter", "KeyEnter", <<>>)
KeySpace == KeyMsg(" ", "KeySpace", <<" ">>)
KeyA == KeyMsg("a", "KeyRunes", <<"a">>)
KeyQ == KeyMsg("q", "KeyRunes", <<"q">>)
KeyCtrlC == KeyMsg("ctrl+c", "KeyCtrlC", <<>>)
KeyBackspace == KeyMsg("backspace", "KeyBackspace", <<>>)
KeyCtrlU == KeyMsg("ctrl+u", "KeyCtrlU", <<>>)

\* A pasted text arrives as one KeyRunes message.
KeyPaste(text) == KeyMsg("[paste]", "KeyRunes", text)

QuitKeys == {KeyQ, KeyCtrlC}

ListSteps ==
  {"StepSelectSubscription", "StepSelectAssignment", "StepAssignmentScope",
   "StepSelectDefinitions", "StepSelectResourceGroup", "StepExpirationChoice"}

TextSteps == {"StepTicket", "StepUsers", "StepExpirationDate"}

LoadingSteps ==
  {"StepLoadingSubscriptions", "StepLoadingAssignments",
   "StepLoadingAssignmentDefinitions", "StepLoadingResourceGroups", "StepCreating"}

InputOf(mm) ==
  CASE mm.Step = "StepTicket" -> mm.TicketInput
    [] mm.Step = "StepUsers" -> mm.UserInput
    [] mm.Step = "StepExpirationDate" -> mm.ExpirationInput
    [] OTHER -> textinputNew(0)

\* The keys offered in a state.  Text is typed or pasted only while the
\* edited value is shorter than B.inputLen.
KeysAt(B, mm) ==
  QuitKeys \cup {KeyEnter}
  \cup (IF mm.Step \in ListSteps THEN {KeyUp, KeyDown, KeyK, KeyJ, KeySpace}
        ELSE IF mm.Step \in {"StepTicket", "StepUsers"}
        THEN {KeyBackspace}
             \cup (IF Len(InputOf(mm).value) < B.inputLen THEN {KeySpace, KeyA} ELSE {})
        ELSE IF mm.Step = "StepExpirationDate"
        THEN {KeyCtrlU}
             \cup (IF Len(InputOf(mm).value) < B.inputLen
                   THEN {KeySpace} \cup {KeyPaste(t) : t \in B.dates} ELSE {})
        ELSE {KeySpace})

(***************************************************************************)
(* The Bubble Tea event loop.  tea.NewProgram(model).Run() calls Init,     *)
(* starts every returned command on a goroutine of its own, and hands the  *)
(* messages (keys, and the messages the commands return) to Update one at  *)
(* a time; tea.Quit is itself a command, whose QuitMsg ends the loop.      *)
(*   inflight    the list / create commands whose goroutine is running     *)
(*   msgs        the messages those commands have returned, not yet        *)
(*               handled                                                   *)
(*   quitPending a tea.Quit command has been returned                      *)
(*   terminated  the loop has returned                                     *)
(*   lastMsg, lastCmd   the last message handled by Update and the command *)
(*               it returned ("init": the call of Model.Init)              *)
(*   visited     the steps the wizard has been in                          *)
(*   events      the completion messages handled so far: type, whether the *)
(*               error was nil, and the length of the list carried         *)
(*   pager       the variables of the running ListAssignments call         *)
(*   azArgs      the arguments of the az command CreateExemption ran       *)
(***************************************************************************)
Init ==
  /\ m = NewModel
  /\ lastCmd = ModelInit(NewModel)
  /\ inflight = <<ModelInit(NewModel)>>
  /\ msgs = <<>>
  /\ quitPending = FALSE
  /\ terminated = FALSE
  /\ lastMsg = Msg("init")
  /\ visited = {NewModel.Step}
  /\ events = {}
  /\ pager = NoCall
  /\ azArgs = <<>>

\* The length of the list a completion message carries.
PayloadLen(msg) ==
  Len(msg.subscriptions) + Len(msg.assignments) + Len(msg.definitions)
  + Len(msg.resourceGroups)

EventOf(msg) == [type |-> msg.type, ok |-> msg.err.nil, n |-> PayloadLen(msg)]

RemoveAt(s, i) == SubSeq(s, 1, i - 1) \o SubSeq(s, i + 1, Len(s))

\* One call of Update by the event loop, and the start of the command it
\* returns.
Handle(msg, now30) ==
  LET res == Update(m, msg, now30)
  IN /\ m' = res.m
     /\ lastCmd' = res.cmd
     /\ lastMsg' = msg
     /\ visited' = visited \cup {res.m.Step}
     /\ events' = IF msg.type = "tea.KeyMsg" THEN events ELSE events \cup {EventOf(msg)}
     /\ inflight' = IF res.cmd.kind \in OperationKinds
                    THEN Append(inflight, res.cmd) ELSE inflight
     /\ quitPending' = (quitPending \/ res.cmd = Quit)

KeyPress(B) ==
  /\ ~terminated
  /\ \E msg \in KeysAt(B, m), now30 \in PrefillDates : Handle(msg, now30)
  /\ UNCHANGED <<msgs, terminated, pager, azArgs>>

\* The loop handing a message to Update after it has returned.
Deliver_AfterEnd ==
  /\ \E i \in 1..Len(msgs), now30 \in PrefillDates :
       /\ Handle(msgs[i], now30)
       /\ msgs' = RemoveAt(msgs, i)
  /\ UNCHANGED <<terminated, pager, azArgs>>

Deliver ==
  /\ ~terminated
  /\ \E i \in 1..Len(msgs), now30 \in PrefillDates :
       /\ Handle(msgs[i], now30)
       /\ msgs' = RemoveAt(msgs, i)
  /\ UNCHANGED <<terminated, pager, azArgs>>

\* A command's goroutine finishes: the client call returns and the message
\* is sent to the loop.
runCmd(B, cmd) ==
  CASE cmd.kind = "fetchSubscriptionsCmd" -> runFetchSubscriptions(B, cmd)
    [] cmd.kind = "fetchAssignmentDefinitionsCmd" -> runFetchAssignmentDefinitions(B, cmd)
    [] cmd.kind = "fetchResourceGroupsCmd" -> runFetchResourceGroups(B, cmd)
    [] cmd.kind = "createExemptionCmd" -> runCreateExemption(B, cmd)

Run(B, kind) ==
  /\ ~terminated
  /\ \E i \in 1..Len(inflight) :
       /\ inflight[i].kind = kind
       /\ \E msg \in runCmd(B, inflight[i]) : msgs' = Append(msgs, msg)
       /\ inflight' = RemoveAt(inflight, i)
       /\ azArgs' = IF kind = "createExemptionCmd" THEN runCreateExemptionArgs(inflight[i])
                    ELSE azArgs
  /\ UNCHANGED <<m, quitPending, terminated, lastCmd, lastMsg, visited, events, pager>>

RunFetchSubscriptions(B) == Run(B, "fetchSubscriptionsCmd")

\* The goroutine of fetchAssignmentsCmd runs one iteration of the loop of
\* ListAssignments, the first one on entering the call: one "az rest" call,
\* after which the call returns its error or goes on with the next uri.
ListAssignmentsPage(B) ==
  /\ ~terminated
  /\ \E i \in 1..Len(inflight) :
       /\ inflight[i].kind = "fetchAssignmentsCmd"
       /\ \E p \in (IF pager.running THEN {pager} ELSE ListAssignmentsEnter(B)) :
            /\ p.uri # ""
            /\ \E page \in azRestAssignments(p.todo, Len(p.pages)) :
                 IF page.fails
                 THEN /\ msgs' = Append(msgs, runFetchAssignments(ListAssignmentsFailed))
                      /\ inflight' = RemoveAt(inflight, i)
                      /\ pager' = NoCall
                 ELSE /\ pager' = ListAssignmentsAppend(p, page)
                      /\ UNCHANGED <<msgs, inflight>>
  /\ UNCHANGED <<m, quitPending, terminated, lastCmd, lastMsg, visited, events, azArgs>>

\* The loop of ListAssignments has ended: the call sorts and returns, and
\* the goroutine sends the message.
RunFetchAssignments(B) ==
  /\ ~terminated
  /\ pager.running
  /\ pager.uri = ""
  /\ \E i \in 1..Len(inflight) :
       /\ inflight[i].kind = "fetchAssignmentsCmd"
       /\ msgs' = Append(msgs, runFetchAssignments(ListAssignmentsReturn(pager)))
       /\ inflight' = RemoveAt(inflight, i)
  /\ pager' = NoCall
  /\ UNCHANGED <<m, quitPending, terminated, lastCmd, lastMsg, visited, events, azArgs>>

RunFetchAssignmentDefinitions(B) == Run(B, "fetchAssignmentDefinitionsCmd")

RunFetchResourceGroups(B) == Run(B, "fetchResourceGroupsCmd")

RunCreateExemption(B) == Run(B, "createExemptionCmd")

\* The QuitMsg of a tea.Quit command reaches the loop, which returns.
QuitLoop ==
  /\ ~terminated
  /\ quitPending
  /\ terminated' = TRUE
  /\ UNCHANGED <<m, inflight, msgs, quitPending, lastCmd, lastMsg, visited, events, pager, azArgs>>

NextB(B) ==
  \/ KeyPress(B)
  \/ Deliver
  \/ RunFetchSubscriptions(B)
  \/ ListAssignmentsPage(B)
  \/ RunFetchAssignments(B)
  \/ RunFetchAssignmentDefinitions(B)
  \/ RunFetchResourceGroups(B)
  \/ RunCreateExemption(B)
  \/ QuitLoop

Next == NextB(ListBudget)

Spec == Init /\ [][Next]_vars

\* The same program with the user typing longer texts and more dates into
\* the three inputs, against a backend with one entry in every list.
NextText == NextB(TextBudget)

SpecText == Init /\ [][NextText]_vars

\* One subscription, up to two assignments (so that the list can come in
\* more than one page) and up to two definitions.
LiveBudget ==
  [subs |-> 1, assignments |-> 2, defs |-> 2, rgs |-> 1, inputLen |-> 1,
   dates |-> {InvalidDate}]

NextFair == NextB(LiveBudget)

\* The same program with what the Go runtime and the event loop guarantee
\* while the loop runs: a goroutine that can take its next step (one more
\* page, the return of the client call and the send of the message) takes
\* it, and a message sent to the loop is handled.  Nothing obliges the user
\* to press a key, and nothing obliges the quit to end the loop.
Fairness ==
  /\ WF_vars(Deliver)
  /\ WF_vars(RunFetchSubscriptions(LiveBudget))
  /\ WF_vars(ListAssignmentsPage(LiveBudget))
  /\ WF_vars(RunFetchAssignments(LiveBudget))
  /\ WF_vars(RunFetchAssignmentDefinitions(LiveBudget))
  /\ WF_vars(RunFetchResourceGroups(LiveBudget))
  /\ WF_vars(RunCreateExemption(LiveBudget))

SpecFair == Init /\ [][NextFair]_vars /\ Fairness

(***************************************************************************)
(* Properties                                                              *)
(***************************************************************************)
\* The step is one in which the event loop called Update with a key.
IsKeyStep ==
  /\ lastMsg'.type = "tea.KeyMsg"
  /\ msgs' = msgs
  /\ terminated' = terminated
  /\ pager' = pager

\* The step is one in which the event loop called Update with a completion
\* message.
IsDeliverStep == Len(msgs') = Len(msgs) - 1

\* The highest index of the list (or of the two options) a list step shows.
LastIndex(mm) ==
  CASE mm.Step = "StepSelectSubscription" -> Len(mm.Subscriptions) - 1
    [] mm.Step = "StepSelectAssignment" -> Len(mm.Assignments) - 1
    [] mm.Step = "StepSelectDefinitions" -> Len(mm.AssignmentDefinitions) - 1
    [] mm.Step = "StepSelectResourceGroup" -> Len(mm.ResourceGroups) - 1
    [] mm.Step = "StepAssignmentScope" -> 1
    [] mm.Step = "StepExpirationChoice" -> 1
    [] OTHER -> mm.Cursor

CursorInList == m.Cursor >= 0 /\ m.Cursor <= LastIndex(m)

CursorClamped ==
  (IsKeyStep /\ m.Step \in ListSteps) =>
     /\ (IsUp(lastMsg') /\ m.Cursor = 0) => m'.Cursor = m.Cursor
     /\ (IsDown(lastMsg') /\ m.Cursor = LastIndex(m)) => m'.Cursor = m.Cursor

\* C1: in every reachable state the cursor is an index of the list (or of
\* the two options) the current step shows, and an up key at index 0 or a
\* down key at the last index leaves the cursor where it is.
C1_CursorWithinList == [](CursorInList) /\ [][CursorClamped]_vars

\* A down key was handled at the only entry of a one-entry subscription list.
C1_Witness ==
  /\ m.Step = "StepSelectSubscription"
  /\ Len(m.Subscriptions) = 1
  /\ lastMsg = KeyDown
  /\ m.Cursor = 0

KindFor(step) ==
  CASE step = "StepLoadingSubscriptions" -> "fetchSubscriptionsCmd"
    [] step = "StepLoadingAssignments" -> "fetchAssignmentsCmd"
    [] step = "StepLoadingAssignmentDefinitions" -> "fetchAssignmentDefinitionsCmd"
    [] step = "StepLoadingResourceGroups" -> "fetchResourceGroupsCmd"
    [] step = "StepCreating" -> "createExemptionCmd"
    [] OTHER -> "nil"

\* Of the initial state: Model.Init has returned the subscriptions fetch.
InitSchedulesFetch ==
  /\ m.Step = "StepLoadingSubscriptions"
  /\ lastCmd.kind = KindFor(m.Step)
  /\ inflight = <<lastCmd>>

SchedulesOnEntry ==
  IF m'.Step # m.Step /\ m'.Step \in LoadingSteps
  THEN lastCmd'.kind = KindFor(m'.Step) /\ inflight' = Append(inflight, lastCmd')
  ELSE /\ Len(inflight') <= Len(inflight)
       /\ (IsKeyStep \/ IsDeliverStep) => lastCmd'.kind \notin OperationKinds

\* C2: a transition schedules an operation exactly when it enters a loading
\* step (Init for the first one), and then exactly one, of the kind of the
\* step entered.
C2_OneOperationPerLoadingStep == InitSchedulesFetch /\ [][SchedulesOnEntry]_vars

\* The definitions message skipped the scope step and started the
\* resource-group fetch.
C2_Witness ==
  /\ m.Step = "StepLoadingResourceGroups"
  /\ lastMsg.type = "assignmentDefinitionsLoadedMsg"
  /\ lastCmd.kind = "fetchResourceGroupsCmd"
  /\ Len(inflight) = 1

\* C3: at most one list / create operation is outstanding (running, or
\* returned and not yet handled) at any time.
C3_AtMostOneInFlight == Len(inflight) + Len(msgs) <= 1

\* The resource-group fetch is running after three earlier operations have
\* completed.
C3_Witness ==
  /\ Len(inflight) = 1
  /\ inflight[1].kind = "fetchResourceGroupsCmd"
  /\ Cardinality(events) = 3

CompletionTypes ==
  {"subscriptionsLoadedMsg", "assignmentsLoadedMsg", "assignmentDefinitionsLoadedMsg",
   "resourceGroupsLoadedMsg", "exemptionCreatedMsg"}

ErrorIsTerminal ==
  /\ (IsDeliverStep /\ lastMsg'.type \in CompletionTypes /\ ~lastMsg'.err.nil) =>
       /\ m'.Step = "StepError"
       /\ m'.Err = lastMsg'.err
       /\ m'.Status = <<>>
       /\ lastCmd' = NoCmd
       /\ inflight' = inflight
  /\ m.Step = "StepError" => (m' = m /\ Len(inflight') <= Len(inflight))

\* C4: a completion message with an error puts the wizard in StepError
\* with that error stored, the status cleared and nothing scheduled; in
\* StepError no event changes the model or schedules anything.
C4_ErrorIsTerminal == [][ErrorIsTerminal]_vars

\* The create call failed and a key was then handled in StepError.
C4_Witness ==
  /\ m.Step = "StepError"
  /\ m.Err = Errorf(<<"failed to create policy exemption">>)
  /\ m.Status = <<>>
  /\ lastMsg = KeyEnter

\* Enter is about to fail validation in the state mm.
ValidationFails(mm) ==
  \/ mm.Step = "StepTicket" /\ TrimSpace(mm.TicketInput.value) = <<>>
  \/ mm.Step = "StepUsers" /\ TrimSpace(mm.UserInput.value) = <<>>
  \/ mm.Step = "StepExpirationDate"
       /\ (TrimSpace(mm.ExpirationInput.value) = <<>>
           \/ ~timeParseOK(TrimSpace(mm.ExpirationInput.value)))
  \/ mm.Step = "StepSelectDefinitions" /\ mm.SelectedDefinitionIDs = {}
  \/ mm.Step = "StepConfirm"
       /\ (\/ mm.SelectedSubscription < 0
           \/ mm.SelectedAssignment < 0
           \/ mm.SelectedResourceGroup < 0
           \/ mm.Ticket = <<>>
           \/ mm.RequestUser = <<>>)

ValidationIsLocal ==
  (IsKeyStep /\ lastMsg' = KeyEnter /\ ValidationFails(m)) =>
     /\ m'.Step = m.Step
     /\ m'.Status # <<>>
     /\ m'.Err.nil
     /\ lastCmd'.kind \notin OperationKinds
     /\ inflight' = inflight

\* C5: Enter on a blank ticket, blank requesters, a blank or invalid date,
\* an empty definition selection or a Confirm with something missing keeps
\* the step, leaves a status message, sets no error and schedules nothing.
C5_ValidationIsLocal == [][ValidationIsLocal]_vars

\* Enter was handled on an invalid date.
C5_Witness ==
  /\ m.Step = "StepExpirationDate"
  /\ lastMsg = KeyEnter
  /\ m.ExpirationInput.value = InvalidDate
  /\ m.Status = <<"Invalid date format. Please use YYYY-MM-DD.">>

NoneOrIndex(i, list) == i = -1 \/ (i >= 0 /\ i < Len(list))

\* C6: each selection field is -1 or an index of its list.
C6_SelectionsValid ==
  /\ NoneOrIndex(m.SelectedSubscription, m.Subscriptions)
  /\ NoneOrIndex(m.SelectedAssignment, m.Assignments)
  /\ NoneOrIndex(m.SelectedResourceGroup, m.ResourceGroups)

\* All three selections are made, none of them the first entry.
C6_Witness ==
  /\ m.SelectedSubscription = 1
  /\ m.SelectedAssignment = 1
  /\ m.SelectedResourceGroup = 1

\* The message just handled is a successful definitions message.
DefinitionsDelivered ==
  /\ IsDeliverStep
  /\ lastMsg'.type = "assignmentDefinitionsLoadedMsg"
  /\ lastMsg'.err.nil

FewDefinitionsHandled ==
  \E e \in events : e.type = "assignmentDefinitionsLoadedMsg" /\ e.ok /\ e.n <= 1

ManyDefinitionsHandled ==
  \E e \in events : e.type = "assignmentDefinitionsLoadedMsg" /\ e.ok /\ e.n >= 2

FewDefinitionsSkipScope ==
  /\ (DefinitionsDelivered /\ Len(lastMsg'.definitions) <= 1) =>
       /\ m.Step = "StepLoadingAssignmentDefinitions"
       /\ m'.Step = "StepLoadingResourceGroups"
       /\ ~m'.PartialExemption
       /\ m'.SelectedDefinitionIDs = {}
  /\ FewDefinitionsHandled' =>
       visited' \cap {"StepAssignmentScope", "StepSelectDefinitions"} = {}

\* C7: a successful definitions message with 0 or 1 definitions takes the
\* wizard from StepLoadingAssignmentDefinitions straight to
\* StepLoadingResourceGroups with PartialExemption false and no definition
\* selected, and StepAssignmentScope and StepSelectDefinitions are not
\* entered in that run.
C7_FewDefinitionsSkipScope == [][FewDefinitionsSkipScope]_vars

\* The wizard finished after a definitions message with one definition.
C7_Witness ==
  /\ m.Step = "StepDone"
  /\ Len(m.AssignmentDefinitions) = 1
  /\ FewDefinitionsHandled

ManyDefinitionsEnterScope ==
  /\ (DefinitionsDelivered /\ Len(lastMsg'.definitions) >= 2) =>
       /\ m'.Step = "StepAssignmentScope"
       /\ m'.Cursor = 0
       /\ lastCmd' = NoCmd
       /\ inflight' = inflight
  /\ (ManyDefinitionsHandled' /\ m'.Step = "StepLoadingResourceGroups"
        /\ m.Step # "StepLoadingResourceGroups") =>
       "StepAssignmentScope" \in visited

\* C8: a successful definitions message with 2 or more definitions enters
\* StepAssignmentScope with the cursor at 0 and nothing scheduled, and
\* StepLoadingResourceGroups is entered only after StepAssignmentScope.
C8_ManyDefinitionsEnterScope == [][ManyDefinitionsEnterScope]_vars

\* Resource groups are being loaded after the scope step was visited.
C8_Witness ==
  /\ m.Step = "StepLoadingResourceGroups"
  /\ ManyDefinitionsHandled
  /\ "StepAssignmentScope" \in visited

\* The selected assignment refers to a policy set (initiative).
IsPolicySet(assignment) == ContainsPolicySet(assignment.PolicyDefinitionID)

C10_SelectionOnlyIfPartial == m.SelectedDefinitionIDs # {} => m.PartialExemption

\* The exemption was created with one definition selected.
C10_Witness ==
  /\ m.Step = "StepDone"
  /\ m.SelectedDefinitionIDs = {"ref2"}
  /\ m.PartialExemption

\* A successful resource-groups message has been handled.
ResourceGroupsHandled ==
  \E e \in events : e.type = "resourceGroupsLoadedMsg" /\ e.ok

\* The "/subscriptions/<id>" form of a subscription id, written without
\* Scope: the id itself when it already starts with "/".
CanonicalScope(id) == IF id[1] = "" /\ Len(id) > 1 THEN id ELSE <<"", "subscriptions">> \o id

ResourceGroupsJustLoaded ==
  (lastMsg.type = "resourceGroupsLoadedMsg" /\ lastMsg.err.nil) =>
     /\ m.Step = "StepSelectResourceGroup"
     /\ m.SelectedResourceGroup = -1
     /\ m.Cursor = 0
     /\ Len(m.ResourceGroups) = Len(lastMsg.resourceGroups) + 1
     /\ Tail(m.ResourceGroups) = lastMsg.resourceGroups

ResourceGroupsStored ==
  ResourceGroupsHandled =>
     /\ m.SelectedSubscription >= 0
     /\ m.SelectedSubscription < Len(m.Subscriptions)
     /\ \A e \in events :
          (e.type = "resourceGroupsLoadedMsg" /\ e.ok) => Len(m.ResourceGroups) = e.n + 1
     /\ m.ResourceGroups[1].Name = "Entire Subscription"
     /\ m.ResourceGroups[1].ID =
          CanonicalScope(At(m.Subscriptions, m.SelectedSubscription).ID)

ResourceGroupsKept ==
  ResourceGroupsHandled =>
     /\ m'.ResourceGroups = m.ResourceGroups
     /\ m'.Subscriptions = m.Subscriptions
     /\ m'.SelectedSubscription = m.SelectedSubscription

EmptySubscriptionsHandled ==
  \E e \in events : e.type = "subscriptionsLoadedMsg" /\ e.ok /\ e.n = 0

\* C12: after a successful subscriptions message with an empty list the
\* wizard is in StepError with the "no subscriptions" error and
\* StepSelectSubscription has not been entered; in StepSelectSubscription
\* the subscription list is not empty.
C12_EmptySubscriptionsFail ==
  /\ (/\ lastMsg.type = "subscriptionsLoadedMsg"
      /\ lastMsg.err.nil
      /\ Len(lastMsg.subscriptions) = 0)
     => /\ m.Step = "StepError"
        /\ m.Err = Errorf(<<"no subscriptions returned by Azure CLI">>)
  /\ EmptySubscriptionsHandled =>
       (m.Step = "StepError" /\ "StepSelectSubscription" \notin visited)
  /\ m.Step = "StepSelectSubscription" => Len(m.Subscriptions) > 0

\* The empty subscription list has just been handled.
C12_Witness ==
  /\ lastMsg.type = "subscriptionsLoadedMsg"
  /\ lastMsg.err.nil
  /\ lastMsg.subscriptions = <<>>
  /\ m.Step = "StepError"
  /\ ~m.Err.nil

\* The text s occurs among the fragments of the message.
Mentions(message, s) == \E i \in 1..Len(message) : message[i] = s

\* C13: while the assignments fetch is scheduled it is for the subscription
\* under the cursor when Enter was pressed, which is the selected one; after
\* a successful assignments message with an empty list the wizard is in
\* StepError and the error message contains that subscription's name.
C13_EmptyAssignmentsNameSubscription ==
  /\ lastCmd.kind = "fetchAssignmentsCmd" =>
       /\ m.SelectedSubscription = m.Cursor
       /\ m.SelectedSubscription < Len(m.Subscriptions)
       /\ lastCmd.sub = At(m.Subscriptions, m.SelectedSubscription)
  /\ (/\ lastMsg.type = "assignmentsLoadedMsg"
      /\ lastMsg.err.nil
      /\ Len(lastMsg.assignments) = 0)
     => /\ m.Step = "StepError"
        /\ ~m.Err.nil
        /\ m.SelectedSubscription >= 0
        /\ m.SelectedSubscription < Len(m.Subscriptions)
        /\ Mentions(m.Err.msg, At(m.Subscriptions, m.SelectedSubscription).Name)

\* The empty assignment list was handled for the second subscription.
C13_Witness ==
  /\ lastMsg.type = "assignmentsLoadedMsg"
  /\ lastMsg.err.nil
  /\ lastMsg.assignments = <<>>
  /\ m.SelectedSubscription = 1
  /\ Mentions(m.Err.msg, "Test")

\* The model after Update has handled the key in the state mm.
AfterKey(mm, key) == Update(mm, key, CHOOSE d \in PrefillDates : TRUE).m

\* The command Update returns for the key in the state mm.
CmdOfKey(mm, key) == Update(mm, key, CHOOSE d \in PrefillDates : TRUE).cmd

\* The reference id of the definition under the cursor.
RefAtCursor(mm) == At(mm.AssignmentDefinitions, mm.Cursor).ReferenceID

\* The selection set with the reference id flipped.
Flipped(selected, ref) ==
  {r \in selected \cup {ref} : (r = ref) # (r \in selected)}

\* C14: in StepSelectDefinitions a toggle key flips the membership of the
\* reference id under the cursor in the selection set, changes nothing else
\* and returns no command; a second toggle at the same cursor gives back the
\* model as it was before the first.
C14_ToggleTwiceRestores ==
  m.Step = "StepSelectDefinitions" =>
     /\ m.Cursor < Len(m.AssignmentDefinitions)
     /\ AfterKey(m, KeySpace) =
          [m EXCEPT !.SelectedDefinitionIDs = Flipped(@, RefAtCursor(m))]
     /\ AfterKey(m, KeySpace).SelectedDefinitionIDs # m.SelectedDefinitionIDs
     /\ CmdOfKey(m, KeySpace) = NoCmd
     /\ AfterKey(AfterKey(m, KeySpace), KeySpace) = m

\* A toggle at the second definition has just removed it again, the first
\* one staying selected.
C14_Witness ==
  /\ m.Step = "StepSelectDefinitions"
  /\ lastMsg = KeySpace
  /\ m.Cursor = 1
  /\ m.SelectedDefinitionIDs = {"ref1"}

\* The text is empty or consists of spaces only.
Blank(s) == \A i \in 1..Len(s) : s[i] = " "

\* v is s without the spaces at its two ends, for a text s that is not
\* blank.
IsTrimOf(v, s) ==
  /\ Len(v) > 0
  /\ v[1] # " "
  /\ v[Len(v)] # " "
  /\ \E i \in 0..(Len(s) - Len(v)) :
       /\ SubSeq(s, i + 1, i + Len(v)) = v
       /\ \A j \in 1..i : s[j] = " "
       /\ \A j \in (i + Len(v) + 1)..Len(s) : s[j] = " "

EnterAtTicket ==
  m.Step = "StepTicket" =>
     IF Blank(m.TicketInput.value)
     THEN /\ AfterKey(m, KeyEnter).Step = "StepTicket"
          /\ AfterKey(m, KeyEnter).Ticket = m.Ticket
          /\ AfterKey(m, KeyEnter).Status # <<>>
          /\ CmdOfKey(m, KeyEnter).kind \notin OperationKinds
     ELSE /\ AfterKey(m, KeyEnter).Step = "StepUsers"
          /\ IsTrimOf(AfterKey(m, KeyEnter).Ticket, m.TicketInput.value)

EnterAtUsers ==
  m.Step = "StepUsers" =>
     IF Blank(m.UserInput.value)
     THEN /\ AfterKey(m, KeyEnter).Step = "StepUsers"
          /\ AfterKey(m, KeyEnter).RequestUser = m.RequestUser
          /\ AfterKey(m, KeyEnter).Status # <<>>
          /\ CmdOfKey(m, KeyEnter).kind \notin OperationKinds
     ELSE /\ AfterKey(m, KeyEnter).Step = "StepExpirationChoice"
          /\ AfterKey(m, KeyEnter).Cursor = 0
          /\ IsTrimOf(AfterKey(m, KeyEnter).RequestUser, m.UserInput.value)

\* C15: Enter in StepTicket (StepUsers) on an empty or all-spaces input
\* keeps the step and the stored Ticket (RequestUser) and leaves a status
\* message; on any other input it stores the input without the spaces at
\* its ends and enters StepUsers (StepExpirationChoice with Cursor 0).  So
\* once StepUsers (StepExpirationChoice) has been entered the stored value
\* is the trimmed input.
C15_BlankInputRejected ==
  /\ EnterAtTicket
  /\ EnterAtUsers
  /\ "StepUsers" \in visited => IsTrimOf(m.Ticket, m.TicketInput.value)
  /\ "StepExpirationChoice" \in visited => IsTrimOf(m.RequestUser, m.UserInput.value)

\* Enter has just stored requesters typed with a space behind them, after a
\* ticket typed with a space in front of it.
C15_Witness ==
  /\ m.Step = "StepExpirationChoice"
  /\ lastMsg = KeyEnter
  /\ m.TicketInput.value = <<" ", "a">>
  /\ m.Ticket = <<"a">>
  /\ m.UserInput.value = <<"a", " ">>
  /\ m.RequestUser = <<"a">>
  /\ m.Cursor = 0

MonthDays == <<31, 28, 31, 30, 31, 30, 31, 31, 30, 31, 30, 31>>

LeapYear(y) == y % 400 = 0 \/ (y % 4 = 0 /\ y % 100 # 0)

TwoDigits(n) == <<Digits[(n \div 10) + 1], Digits[(n % 10) + 1]>>

\* The number a digit stands for.
DigitOf(c) == CHOOSE k \in 0..9 : TwoDigits(k) = <<"0", c>>

\* The year a text starts with, when its first four characters are digits.
YearOf(v) ==
  1000 * DigitOf(v[1]) + 100 * DigitOf(v[2]) + 10 * DigitOf(v[3]) + DigitOf(v[4])

\* The text is YYYY-MM-DD for a day that exists: written by formatting the
\* dates of the calendar, not by parsing the text.
RealCalendarDate(v) ==
  /\ Len(v) = 10
  /\ \A i \in 1..4 : \E k \in 1..10 : Digits[k] = v[i]
  /\ v[5] = "-"
  /\ v[8] = "-"
  /\ \E month \in 1..12 :
       /\ TwoDigits(month) = SubSeq(v, 6, 7)
       /\ \E day \in 1..(MonthDays[month]
                         + (IF month = 2 /\ LeapYear(YearOf(v)) THEN 1 ELSE 0)) :
             TwoDigits(day) = SubSeq(v, 9, 10)

\* The dates the statement names.
DateExamples ==
  /\ ~RealCalendarDate(InvalidDate)
  /\ ~RealCalendarDate(<<>>)
  /\ RealCalendarDate(ValidDate)

EnterAtExpirationDate ==
  m.Step = "StepExpirationDate" =>
     IF RealCalendarDate(m.ExpirationInput.value)
     THEN /\ AfterKey(m, KeyEnter).Step = "StepConfirm"
          /\ AfterKey(m, KeyEnter).ExpirationDate = m.ExpirationInput.value
     ELSE /\ AfterKey(m, KeyEnter).Step = "StepExpirationDate"
          /\ AfterKey(m, KeyEnter).ExpirationDate = m.ExpirationDate
          /\ AfterKey(m, KeyEnter).Status # <<>>
          /\ CmdOfKey(m, KeyEnter).kind \notin OperationKinds

\* C16: Enter in StepExpirationDate on an input that is not a real calendar
\* date written YYYY-MM-DD (2024-02-30, the empty input) keeps the step and
\* the stored expiration date and leaves a status message; on a real date
\* (2024-06-15) it stores the input as it is and enters StepConfirm.  So a
\* stored expiration date is a real date and equal to the input.
C16_DateValidated ==
  /\ DateExamples
  /\ EnterAtExpirationDate
  /\ m.ExpirationDate # <<>> =>
       (RealCalendarDate(m.ExpirationDate) /\ m.ExpirationDate = m.ExpirationInput.value)

\* Enter has just stored 2024-06-15.
C16_Witness ==
  /\ m.Step = "StepConfirm"
  /\ lastMsg = KeyEnter
  /\ m.ExpirationDate = ValidDate
  /\ m.ExpirationInput.value = ValidDate

ExpirationChoiceMade ==
  /\ (IsKeyStep /\ lastMsg' = KeyEnter /\ m.Step = "StepExpirationChoice" /\ m.Cursor = 0) =>
       /\ m'.Step = "StepConfirm"
       /\ m'.ExpirationDate = <<>>
       /\ "StepExpirationDate" \notin visited'
  /\ (m'.Step = "StepExpirationDate" /\ m.Step # "StepExpirationDate") =>
       /\ IsKeyStep
       /\ lastMsg' = KeyEnter
       /\ m.Step = "StepExpirationChoice"
       /\ m.Cursor = 1

DatedCreateWasValidated ==
  \A i \in 1..Len(inflight) :
     (inflight[i].kind = "createExemptionCmd" /\ inflight[i].expirationDate # <<>>) =>
        /\ "StepExpirationDate" \in visited
        /\ timeParseOK(inflight[i].expirationDate)
        /\ inflight[i].expirationDate = m.ExpirationInput.value

\* C17: Enter on option 0 of StepExpirationChoice clears the expiration
\* date and enters StepConfirm, StepExpirationDate not having been visited;
\* StepExpirationDate is entered only by Enter on option 1 of
\* StepExpirationChoice; a create operation scheduled with a non-empty
\* expiration date was scheduled after StepExpirationDate was visited, with
\* a date that time.Parse accepts.
C17_ExpirationChoice ==
  [](DatedCreateWasValidated) /\ [][ExpirationChoiceMade]_vars

\* The create operation is running with a date typed in StepExpirationDate
\* in place of the one offered.
C17_Witness ==
  /\ m.Step = "StepCreating"
  /\ Len(inflight) = 1
  /\ inflight[1].kind = "createExemptionCmd"
  /\ inflight[1].expirationDate = LeapDay
  /\ "StepExpirationDate" \in visited

\* Everything Confirm needs is there.
Prerequisites(mm) ==
  /\ mm.SelectedSubscription >= 0
  /\ mm.SelectedAssignment >= 0
  /\ mm.SelectedResourceGroup >= 0
  /\ mm.Ticket # <<>>
  /\ mm.RequestUser # <<>>

\* The model mm, and mm with one of the five prerequisites taken away.
WithOneMissing(mm) ==
  { mm,
    [mm EXCEPT !.SelectedSubscription = -1],
    [mm EXCEPT !.SelectedAssignment = -1],
    [mm EXCEPT !.SelectedResourceGroup = -1],
    [mm EXCEPT !.Ticket = <<>>],
    [mm EXCEPT !.RequestUser = <<>>] }

EnterAtConfirm(mm) ==
  IF Prerequisites(mm)
  THEN /\ AfterKey(mm, KeyEnter).Step = "StepCreating"
       /\ CmdOfKey(mm, KeyEnter).kind = "createExemptionCmd"
  ELSE /\ AfterKey(mm, KeyEnter) =
            [mm EXCEPT !.Status = <<"Missing information. Use q to abort.">>]
       /\ CmdOfKey(mm, KeyEnter) = NoCmd

\* C18: Enter in StepConfirm enters StepCreating and returns the create
\* command when the three selections are set and Ticket and RequestUser are
\* not empty, and otherwise only sets the "missing information" status
\* (tried on every reachable StepConfirm model and on that model with each
\* prerequisite taken away); a create operation is scheduled only with all
\* three selections set and a ticket and requesters that are not blank.
C18_ConfirmNeedsEverything ==
  /\ m.Step = "StepConfirm" => \A mm \in WithOneMissing(m) : EnterAtConfirm(mm)
  /\ \A i \in 1..Len(inflight) :
       inflight[i].kind = "createExemptionCmd" =>
          /\ Prerequisites(m)
          /\ inflight[i].ticket = m.Ticket
          /\ inflight[i].users = m.RequestUser
          /\ ~Blank(inflight[i].ticket)
          /\ ~Blank(inflight[i].users)

\* Enter in StepConfirm has just scheduled the create operation.
C18_Witness ==
  /\ m.Step = "StepCreating"
  /\ lastMsg = KeyEnter
  /\ lastCmd.kind = "createExemptionCmd"
  /\ inflight = <<lastCmd>>
  /\ Prerequisites(m)

\* C19: in every state a quit key (q, ctrl+c) makes Update return the model
\* as it is together with tea.Quit, so nothing is scheduled; a quit key
\* that was handled left tea.Quit pending, and the loop ends only with
\* tea.Quit pending.
C19_QuitHasNoSideEffects ==
  /\ \A key \in QuitKeys : AfterKey(m, key) = m /\ CmdOfKey(m, key) = Quit
  /\ lastMsg \in QuitKeys => (lastCmd = Quit /\ quitPending)
  /\ Quit.kind \notin OperationKinds
  /\ terminated => quitPending

\* The program ended on q in StepTicket, the text typed before it still
\* being the input.
C19_Witness ==
  /\ terminated
  /\ lastMsg = KeyQ
  /\ m.Step = "StepTicket"
  /\ m.TicketInput.value = <<"a">>
  /\ m.Ticket = <<>>
  /\ inflight = <<>>

\* Keys other than the quit keys.
NonQuitKeys ==
  {KeyUp, KeyDown, KeyK, KeyJ, KeyEnter, KeySpace, KeyA, KeyBackspace, KeyCtrlU,
   KeyPaste(InvalidDate)}

KeysIgnoredWhileLoading ==
  m.Step \in LoadingSteps =>
     \A key \in NonQuitKeys : AfterKey(m, key) = m /\ CmdOfKey(m, key) = NoCmd

LoadingLeftByCompletion ==
  m.Step \in LoadingSteps =>
     /\ IsKeyStep => (m' = m /\ inflight' = inflight)
     /\ m'.Step # m.Step => (IsDeliverStep /\ lastMsg'.type \in CompletionTypes)

\* C20: in the five loading steps every key other than a quit key leaves
\* the model as it is and returns no command, and the step changes only
\* when a completion message is handled.
C20_LoadingIgnoresKeys ==
  [](KeysIgnoredWhileLoading) /\ [][LoadingLeftByCompletion]_vars

\* Enter was handled while the resource groups were being fetched.
C20_Witness ==
  /\ m.Step = "StepLoadingResourceGroups"
  /\ lastMsg = KeyEnter
  /\ lastCmd = NoCmd
  /\ Len(inflight) = 1
  /\ m.Status = <<"Loading resource groups...">>

\* The edges of the wizard: the fixed sequence with its optional steps, and
\* the edge from every loading step to StepError.
StepEdges ==
  { <<"StepLoadingSubscriptions", "StepSelectSubscription">>,
    <<"StepSelectSubscription", "StepLoadingAssignments">>,
    <<"StepLoadingAssignments", "StepSelectAssignment">>,
    <<"StepSelectAssignment", "StepLoadingAssignmentDefinitions">>,
    <<"StepLoadingAssignmentDefinitions", "StepAssignmentScope">>,
    <<"StepLoadingAssignmentDefinitions", "StepLoadingResourceGroups">>,
    <<"StepAssignmentScope", "StepSelectDefinitions">>,
    <<"StepAssignmentScope", "StepLoadingResourceGroups">>,
    <<"StepSelectDefinitions", "StepLoadingResourceGroups">>,
    <<"StepLoadingResourceGroups", "StepSelectResourceGroup">>,
    <<"StepSelectResourceGroup", "StepTicket">>,
    <<"StepTicket", "StepUsers">>,
    <<"StepUsers", "StepExpirationChoice">>,
    <<"StepExpirationChoice", "StepExpirationDate">>,
    <<"StepExpirationChoice", "StepConfirm">>,
    <<"StepExpirationDate", "StepConfirm">>,
    <<"StepConfirm", "StepCreating">>,
    <<"StepCreating", "StepDone">> }
  \cup { <<s, "StepError">> : s \in LoadingSteps }

StepFollowsEdge ==
  m'.Step # m.Step =>
     /\ <<m.Step, m'.Step>> \in StepEdges
     /\ m'.Step \notin visited

\* C21: the step changes only along an edge of the fixed sequence (or from a
\* loading step to StepError), and never to a step the run has been in
\* before.
C21_StepsFollowSequence == [][StepFollowsEdge]_vars

\* The wizard finished after going through every step, the optional ones
\* included.
C21_Witness ==
  /\ m.Step = "StepDone"
  /\ visited = {Steps[i] : i \in 1..Len(Steps)} \ {"StepError"}

\* Every completion message handled so far was a success, with a list to
\* select from where one is needed.
AllSucceeded ==
  \A e \in events :
     /\ e.ok
     /\ e.type \in {"subscriptionsLoadedMsg", "assignmentsLoadedMsg"} => e.n >= 1

\* C22: while every operation succeeds the wizard is not in StepError; when
\* the create message has succeeded the wizard is in StepDone with
\* CreateOutput the output the message carried, which no later key changes;
\* and when the run did not go through StepExpirationDate the expiration
\* date stored and passed to the create operation is empty.
C22_HappyPathEndsInDone ==
  /\ AllSucceeded => (m.Step # "StepError" /\ m.Err.nil)
  /\ (lastMsg.type = "exemptionCreatedMsg" /\ lastMsg.err.nil) =>
       (m.Step = "StepDone" /\ m.CreateOutput = lastMsg.output)
  /\ m.Step = "StepDone" =>
       /\ m.CreateOutput \in OutputPool
       /\ \E e \in events : e.type = "exemptionCreatedMsg" /\ e.ok
       /\ \A key \in NonQuitKeys : AfterKey(m, key) = m
  /\ m.Step # "StepDone" => m.CreateOutput = ""
  /\ "StepExpirationDate" \notin visited =>
       /\ m.ExpirationDate = <<>>
       /\ \A i \in 1..Len(inflight) : inflight[i].expirationDate = <<>>

\* The exemption was created for an assignment with one definition, no
\* scope step and no expiration date, and a key was pressed afterwards.
C22_Witness ==
  /\ m.Step = "StepDone"
  /\ AllSucceeded
  /\ Len(m.AssignmentDefinitions) = 1
  /\ "StepAssignmentScope" \notin visited
  /\ "StepExpirationDate" \notin visited
  /\ m.Ticket # <<>>
  /\ m.RequestUser # <<>>
  /\ m.ExpirationDate = <<>>
  /\ m.CreateOutput = "exemption-json"
  /\ lastMsg = KeyEnter

\* C23: after a successful subscriptions message with a non-empty list the
\* stored list is the list of the message, Cursor is 0, SelectedSubscription
\* is -1, the step is StepSelectSubscription and nothing is scheduled; the
\* list of the one subscription "/subscriptions/a" named "Prod" is stored as
\* one entry named "Prod" with short id "a".
C23_SubscriptionsStored ==
  /\ (/\ lastMsg.type = "subscriptionsLoadedMsg"
      /\ lastMsg.err.nil
      /\ Len(lastMsg.subscriptions) > 0)
     => /\ m.Subscriptions = lastMsg.subscriptions
        /\ m.Cursor = 0
        /\ m.SelectedSubscription = -1
        /\ m.Step = "StepSelectSubscription"
        /\ lastCmd = NoCmd
        /\ inflight = <<>>
  /\ (/\ lastMsg.type = "subscriptionsLoadedMsg"
      /\ lastMsg.subscriptions = <<[ID |-> <<"", "subscriptions", "a">>, Name |-> "Prod"]>>)
     => /\ Len(m.Subscriptions) = 1
        /\ m.Subscriptions[1].Name = "Prod"
        /\ ShortID(m.Subscriptions[1]) = <<"a">>

\* The list of two subscriptions has just been stored.
C23_Witness ==
  /\ lastMsg.type = "subscriptionsLoadedMsg"
  /\ Len(lastMsg.subscriptions) = 2
  /\ m.Subscriptions = lastMsg.subscriptions
  /\ m.Step = "StepSelectSubscription"

\* The values of the pages, one page after the other.
RECURSIVE Flatten(_)
Flatten(pages) ==
  IF Len(pages) = 0 THEN <<>> ELSE Flatten(SubSeq(pages, 1, Len(pages) - 1)) \o pages[Len(pages)]

\* The two lists hold the same assignments, each once.
SameAssignments(a, b) ==
  /\ Len(a) = Len(b)
  /\ {a[i] : i \in 1..Len(a)} = {b[i] : i \in 1..Len(b)}
  /\ Cardinality({a[i] : i \in 1..Len(a)}) = Len(a)

\* Between two iterations allAssignments holds the values of the pages
\* fetched so far, in the order fetched.
PagesAccumulated ==
  /\ pager.allAssignments = Flatten(pager.pages)
  /\ Len(pager.pages) <= MaxPages
  /\ ~pager.running => pager = NoCall
  /\ pager.running =>
       (Len(pager.pages) >= 1 /\ \E i \in 1..Len(inflight) : inflight[i].kind = "fetchAssignmentsCmd")

\* The step is an iteration of the loop that fetched a page.
IsPageStep == pager'.running /\ Len(pager'.pages) = Len(pager.pages) + 1

\* The step is the one in which the call returned and its message was sent.
IsListAssignmentsReturn ==
  /\ Len(msgs') = Len(msgs) + 1
  /\ Last(msgs').type = "assignmentsLoadedMsg"

PagesFollowed ==
  /\ IsPageStep =>
       /\ pager.running => pager.uri # ""
       /\ pager'.allAssignments = pager.allAssignments \o Last(pager'.pages)
       /\ msgs' = msgs
       /\ inflight' = inflight
  /\ IsListAssignmentsReturn =>
       /\ msgs' = Append(msgs, Last(msgs'))
       /\ pager' = NoCall
       /\ IF Last(msgs').err.nil
          THEN /\ pager.running
               /\ pager.uri = ""
               /\ pager.todo = <<>>
               /\ SameAssignments(Last(msgs').assignments, Flatten(pager.pages))
          ELSE Last(msgs').assignments = <<>>
  /\ (pager.running /\ pager.uri = "") => ~IsPageStep
  /\ (pager.running /\ pager.uri # "") =>
       (pager' = pager \/ IsPageStep \/ (IsListAssignmentsReturn /\ ~Last(msgs').err.nil))

\* C28: ListAssignments requests a page while uri is not empty and appends
\* the page's values to what it has; it returns without error exactly when
\* a page came with an empty nextLink, and then the list returned holds the
\* values of every page the backend had; when a request fails it returns
\* the error with an empty list, whatever it had collected.
C28_AllPagesCollected == [](PagesAccumulated) /\ [][PagesFollowed]_vars

\* The loop has ended after two pages of one assignment each, served in the
\* order opposite to the sorted one.
C28_Witness ==
  /\ pager.running
  /\ pager.uri = ""
  /\ Len(pager.pages) = 2
  /\ pager.allAssignments = <<AssignmentPool[2], AssignmentPool[1]>>
  /\ pager.pages = << <<AssignmentPool[2]>>, <<AssignmentPool[1]>> >>

\* The type of the message the command of a kind returns.
TypeFor(kind) ==
  CASE kind = "fetchSubscriptionsCmd" -> "subscriptionsLoadedMsg"
    [] kind = "fetchAssignmentsCmd" -> "assignmentsLoadedMsg"
    [] kind = "fetchAssignmentDefinitionsCmd" -> "assignmentDefinitionsLoadedMsg"
    [] kind = "fetchResourceGroupsCmd" -> "resourceGroupsLoadedMsg"
    [] kind = "createExemptionCmd" -> "exemptionCreatedMsg"
    [] OTHER -> "nil"

\* The message carries nothing but the result of its own kind.
OnlyOwnPayload(msg) ==
  /\ msg.type # "subscriptionsLoadedMsg" => msg.subscriptions = <<>>
  /\ msg.type # "assignmentsLoadedMsg" => msg.assignments = <<>>
  /\ msg.type # "assignmentDefinitionsLoadedMsg" => msg.definitions = <<>>
  /\ msg.type # "resourceGroupsLoadedMsg" => msg.resourceGroups = <<>>
  /\ msg.type # "exemptionCreatedMsg" => msg.output = ""

\* The message carries no result at all.
NoPayload(msg) == PayloadLen(msg) = 0 /\ msg.output = ""

\* A completion message is of one of the five types and carries the result
\* of its kind or an error, not both.
CompletionWellFormed(msg) ==
  /\ msg.type \in CompletionTypes
  /\ OnlyOwnPayload(msg)
  /\ ~msg.err.nil => NoPayload(msg)
  /\ (msg.type = "exemptionCreatedMsg" /\ msg.err.nil) => msg.output \in OutputPool

CompletionsWellFormed ==
  /\ \A i \in 1..Len(msgs) : CompletionWellFormed(msgs[i])
  /\ \A i \in 1..Len(inflight) : inflight[i].kind \in OperationKinds
  /\ lastMsg.type \in CompletionTypes => CompletionWellFormed(lastMsg)

OneCompletionPerOperation ==
  /\ Len(inflight') < Len(inflight) =>
       \E i \in 1..Len(inflight) :
         /\ inflight' = RemoveAt(inflight, i)
         /\ msgs' = Append(msgs, Last(msgs'))
         /\ Last(msgs').type = TypeFor(inflight[i].kind)
  /\ Len(msgs') > Len(msgs) => Len(inflight') < Len(inflight)
  /\ Len(msgs') < Len(msgs) =>
       \E i \in 1..Len(msgs) : msgs' = RemoveAt(msgs, i) /\ lastMsg' = msgs[i]
  /\ Len(msgs') = Len(msgs) => msgs' = msgs

\* C24: a command leaves the running ones only by returning, and then it
\* sends exactly one message, of the type of its kind; messages come from
\* nowhere else and each is handed to Update once; a message carries the
\* result of its kind or an error, never both.
C24_OneCompletionPerOperation == [](CompletionsWellFormed) /\ [][OneCompletionPerOperation]_vars

\* The create command has returned an error, not yet handled.
C24_Witness ==
  /\ m.Step = "StepCreating"
  /\ inflight = <<>>
  /\ Len(msgs) = 1
  /\ msgs[1].type = "exemptionCreatedMsg"
  /\ ~msgs[1].err.nil
  /\ msgs[1].output = ""

\* The step is one of a command's goroutine: a page fetched, or the call
\* returned and the message sent.
IsOperationStep == pager' # pager \/ Len(msgs') > Len(msgs)

\* What the loop keeps of the handling of events.
handled == <<m, lastMsg, lastCmd, visited, events, quitPending>>

EventsOneAtATime ==
  /\ IsOperationStep => handled' = handled
  /\ handled' # handled =>
       /\ IsKeyStep \/ IsDeliverStep
       /\ \E now30 \in PrefillDates :
            /\ m' = Update(m, lastMsg', now30).m
            /\ lastCmd' = Update(m, lastMsg', now30).cmd
       /\ Len(inflight') <= Len(inflight) + 1
  /\ IsDeliverStep =>
       /\ \E i \in 1..Len(msgs) : msgs' = RemoveAt(msgs, i) /\ lastMsg' = msgs[i]
       /\ inflight' = IF lastCmd'.kind \in OperationKinds
                      THEN Append(inflight, lastCmd') ELSE inflight
  /\ terminated => vars' = vars

\* Until its message is handled the result of a command is nowhere in the
\* model: what the message carries is stored only by Update.
ResultNotYetApplied ==
  /\ \A i \in 1..Len(msgs) :
       /\ m.Step \in LoadingSteps
       /\ msgs[i].type = TypeFor(KindFor(m.Step))
       /\ msgs[i].type = "subscriptionsLoadedMsg" => m.Subscriptions = <<>>
       /\ msgs[i].type = "assignmentsLoadedMsg" => m.Assignments = <<>>
       /\ msgs[i].type = "assignmentDefinitionsLoadedMsg" => m.AssignmentDefinitions = <<>>
       /\ msgs[i].type = "resourceGroupsLoadedMsg" => m.ResourceGroups = <<>>
       /\ msgs[i].type = "exemptionCreatedMsg" => m.CreateOutput = ""
       /\ m.Err = NilErr
  /\ terminated => quitPending

StepsUpToTicket ==
  {"StepLoadingSubscriptions", "StepSelectSubscription", "StepLoadingAssignments",
   "StepSelectAssignment", "StepLoadingAssignmentDefinitions", "StepAssignmentScope",
   "StepSelectDefinitions", "StepLoadingResourceGroups", "StepSelectResourceGroup",
   "StepTicket"}

StepsUpToUsers == StepsUpToTicket \cup {"StepUsers"}

StepsUpToExpirationDate == StepsUpToUsers \cup {"StepExpirationChoice", "StepExpirationDate"}

\* C27: Ticket is empty in every step up to and including StepTicket,
\* RequestUser in every step up to and including StepUsers, ExpirationDate
\* in every step up to and including StepExpirationDate; a field that is
\* not empty was stored by Enter in its own step, which was then left, and
\* holds the trimmed, non-blank input of that step, for the date one that
\* is a real calendar date.
C27_FieldsEmptyUntilEntered ==
  /\ m.Step \in StepsUpToTicket => m.Ticket = <<>>
  /\ m.Step \in StepsUpToUsers => m.RequestUser = <<>>
  /\ m.Step \in StepsUpToExpirationDate => m.ExpirationDate = <<>>
  /\ "StepUsers" \notin visited => m.Ticket = <<>>
  /\ "StepExpirationChoice" \notin visited => m.RequestUser = <<>>
  /\ ("StepExpirationDate" \notin visited \/ "StepConfirm" \notin visited) =>
       m.ExpirationDate = <<>>
  /\ m.Ticket # <<>> => (~Blank(m.Ticket) /\ IsTrimOf(m.Ticket, m.TicketInput.value))
  /\ m.RequestUser # <<>> =>
       (~Blank(m.RequestUser) /\ IsTrimOf(m.RequestUser, m.UserInput.value))
  /\ m.ExpirationDate # <<>> => RealCalendarDate(m.ExpirationDate)
  /\ "StepUsers" \in visited => m.Ticket # <<>>
  /\ "StepExpirationChoice" \in visited => m.RequestUser # <<>>

\* All three steps were completed: the ticket typed with a leading space,
\* the date typed in place of the one offered.
C27_Witness ==
  /\ m.Step = "StepConfirm"
  /\ m.TicketInput.value = <<" ", "a">>
  /\ m.Ticket = <<"a">>
  /\ m.RequestUser = <<"a">>
  /\ m.ExpirationDate = LeapDay

\* Enter in StepSelectSubscription, in StepSelectAssignment and in
\* StepSelectResourceGroup, in the state mm.
EnterAtSelectSubscription(mm) ==
  LET after == AfterKey(mm, KeyEnter)
      cmd == CmdOfKey(mm, KeyEnter)
  IN /\ after.SelectedSubscription = mm.Cursor
     /\ after.Step = "StepLoadingAssignments"
     /\ cmd.kind = "fetchAssignmentsCmd"
     /\ cmd.sub = At(mm.Subscriptions, mm.Cursor)
     /\ cmd = fetchAssignmentsCmd(At(mm.Subscriptions, mm.Cursor))
     /\ [after EXCEPT !.Status = mm.Status] =
          [mm EXCEPT !.SelectedSubscription = mm.Cursor, !.Step = "StepLoadingAssignments"]

EnterAtSelectAssignment(mm) ==
  LET after == AfterKey(mm, KeyEnter)
      cmd == CmdOfKey(mm, KeyEnter)
  IN /\ after.SelectedAssignment = mm.Cursor
     /\ after.Step = "StepLoadingAssignmentDefinitions"
     /\ cmd.kind = "fetchAssignmentDefinitionsCmd"
     /\ cmd.assignment = At(mm.Assignments, mm.Cursor)
     /\ cmd = fetchAssignmentDefinitionsCmd(At(mm.Assignments, mm.Cursor))
     /\ [after EXCEPT !.Status = mm.Status] =
          [mm EXCEPT !.SelectedAssignment = mm.Cursor,
                     !.Step = "StepLoadingAssignmentDefinitions"]

EnterAtSelectResourceGroup(mm) ==
  LET after == AfterKey(mm, KeyEnter)
      cmd == CmdOfKey(mm, KeyEnter)
  IN /\ after.SelectedResourceGroup = mm.Cursor
     /\ after.Step = "StepTicket"
     /\ cmd = NoCmd
     /\ after.TicketInput.focus
     /\ after.TicketInput.value = <<>>
     /\ [after EXCEPT !.Status = mm.Status, !.TicketInput = mm.TicketInput] =
          [mm EXCEPT !.SelectedResourceGroup = mm.Cursor, !.Step = "StepTicket"]

\* C29: Enter in StepSelectSubscription (StepSelectAssignment) stores the
\* cursor as the selection, enters StepLoadingAssignments
\* (StepLoadingAssignmentDefinitions) and returns the fetch command for the
\* item of the list at the cursor; Enter in StepSelectResourceGroup stores
\* the cursor as the selection, enters StepTicket and returns no command.
\* So the command running in the two loading steps is the one for the
\* selected item, and nothing is running in StepTicket.
C29_EnterRecordsSelection ==
  /\ m.Step = "StepSelectSubscription" => EnterAtSelectSubscription(m)
  /\ m.Step = "StepSelectAssignment" => EnterAtSelectAssignment(m)
  /\ m.Step = "StepSelectResourceGroup" => EnterAtSelectResourceGroup(m)
  /\ m.Step = "StepLoadingAssignments" =>
       \A i \in 1..Len(inflight) :
          inflight[i] = fetchAssignmentsCmd(At(m.Subscriptions, m.SelectedSubscription))
  /\ m.Step = "StepLoadingAssignmentDefinitions" =>
       \A i \in 1..Len(inflight) :
          inflight[i] = fetchAssignmentDefinitionsCmd(At(m.Assignments, m.SelectedAssignment))
  /\ m.Step = "StepTicket" =>
       (inflight = <<>> /\ msgs = <<>> /\ m.SelectedResourceGroup \in 0..(Len(m.ResourceGroups) - 1))

\* Enter on the second assignment of the list has started the fetch of its
\* definitions.
C29_Witness ==
  /\ m.Step = "StepLoadingAssignmentDefinitions"
  /\ lastMsg = KeyEnter
  /\ m.SelectedAssignment = 1
  /\ Len(m.Assignments) = 2
  /\ inflight = <<fetchAssignmentDefinitionsCmd(m.Assignments[2])>>
  /\ lastCmd = inflight[1]

\* The create command for what the model mm holds.
CreateFor(mm) ==
  createExemptionCmd(At(mm.ResourceGroups, mm.SelectedResourceGroup).ID,
                     At(mm.Assignments, mm.SelectedAssignment),
                     mm.SelectedDefinitionIDs, mm.Ticket, mm.RequestUser, mm.ExpirationDate)

\* The reference ids of the definitions of the selected assignment.
ReferenceIDs(mm) ==
  {mm.AssignmentDefinitions[i].ReferenceID : i \in 1..Len(mm.AssignmentDefinitions)}

CreateArguments(mm, cmd) ==
  /\ cmd.kind = "createExemptionCmd"
  /\ cmd.scope = At(mm.ResourceGroups, mm.SelectedResourceGroup).ID
  /\ mm.SelectedResourceGroup = 0 =>
       cmd.scope = CanonicalScope(At(mm.Subscriptions, mm.SelectedSubscription).ID)
  /\ mm.SelectedResourceGroup > 0 =>
       \E i \in 1..Len(RGPool) : cmd.scope = RGPool[i].ID
  /\ cmd.assignment = At(mm.Assignments, mm.SelectedAssignment)
  /\ cmd.selectedDefinitionIDs = mm.SelectedDefinitionIDs
  /\ ~mm.PartialExemption => cmd.selectedDefinitionIDs = {}
  /\ mm.PartialExemption =>
       (cmd.selectedDefinitionIDs # {} /\ cmd.selectedDefinitionIDs \subseteq ReferenceIDs(mm))
  /\ cmd.ticket = mm.Ticket
  /\ cmd.users = mm.RequestUser
  /\ cmd.expirationDate = mm.ExpirationDate
  /\ cmd = CreateFor(mm)

\* C30: Enter in StepConfirm returns the create command with the id of the
\* selected entry of ResourceGroups as scope (for entry 0 the canonical
\* scope of the selected subscription), the selected assignment, the set
\* SelectedDefinitionIDs (empty unless the exemption is partial, and then
\* a non-empty set of reference ids of the assignment's definitions), and
\* the stored ticket, requesters and expiration date; the create command
\* that is running, and the message it returns, come from those arguments.
C30_CreateArguments ==
  /\ m.Step = "StepConfirm" =>
       /\ CreateArguments(m, CmdOfKey(m, KeyEnter))
       /\ [AfterKey(m, KeyEnter) EXCEPT !.Status = m.Status] = [m EXCEPT !.Step = "StepCreating"]
  /\ \A i \in 1..Len(inflight) :
       inflight[i].kind = "createExemptionCmd" =>
          /\ m.Step = "StepCreating"
          /\ CreateArguments(m, inflight[i])
          /\ runCreateExemption(ListBudget, inflight[i]) =
               { [Msg("exemptionCreatedMsg") EXCEPT !.output = r.value, !.err = r.err] :
                   r \in CreateExemption(inflight[i].scope, inflight[i].assignment,
                                         m.SelectedDefinitionIDs, m.Ticket, m.RequestUser,
                                         m.ExpirationDate) }

\* The create command is running for a resource group and one of the two
\* definitions of the assignment.
C30_Witness ==
  /\ m.Step = "StepCreating"
  /\ Len(inflight) = 1
  /\ inflight[1].kind = "createExemptionCmd"
  /\ m.SelectedResourceGroup = 1
  /\ inflight[1].scope = RGPool[1].ID
  /\ m.PartialExemption
  /\ Cardinality(inflight[1].selectedDefinitionIDs) = 1
  /\ Len(m.AssignmentDefinitions) = 2

\* The create command is running for the whole subscription and the whole
\* assignment.
C30_WitnessSubscription ==
  /\ m.Step = "StepCreating"
  /\ Len(inflight) = 1
  /\ m.SelectedResourceGroup = 0
  /\ inflight[1].scope = CanonicalScope(At(m.Subscriptions, m.SelectedSubscription).ID)
  /\ ~m.PartialExemption
  /\ inflight[1].selectedDefinitionIDs = {}

\* The steps a step can be left for.
Successors(step) == { e[2] : e \in { d \in StepEdges : d[1] = step } }

\* A command that is running returns, and a message that was sent is
\* handled, unless the loop ends first.
CompletionDelivered ==
  /\ \A kind \in OperationKinds :
       (\E i \in 1..Len(inflight) : inflight[i].kind = kind)
         ~> ((\E i \in 1..Len(msgs) : msgs[i].type = TypeFor(kind)) \/ terminated)
  /\ \A type \in CompletionTypes :
       (\E i \in 1..Len(msgs) : msgs[i].type = type)
         ~> ((msgs = <<>> /\ lastMsg.type = type) \/ terminated)

LoadingStepsLeft ==
  \A step \in LoadingSteps :
     (m.Step = step) ~> (m.Step \in Successors(step) \/ quitPending)

\* C25: a command that is running eventually returns its message and the
\* message is eventually handled, unless the loop has ended; so a loading
\* step is eventually left for one of its successors (the next step, or
\* StepError) unless the user quits.
C25_LoadingStepsAreLeft == CompletionDelivered /\ LoadingStepsLeft

\* All five operations completed without a quit and the wizard is done.
C25_Witness ==
  /\ m.Step = "StepDone"
  /\ ~quitPending
  /\ lastMsg.type = "exemptionCreatedMsg"
  /\ Cardinality(events) = 5
  /\ inflight = <<>>
  /\ msgs = <<>>

\* What Update returns for a message in the state mm.
AfterMsg(mm, msg) == Update(mm, msg, CHOOSE d \in PrefillDates : TRUE)

\* The successful assignments messages with a list that is not empty.
AssignmentsMsgs ==
  { [Msg("assignmentsLoadedMsg") EXCEPT !.assignments = l] :
      l \in Prefixes(AssignmentPool, MaxAssignments) \ {<<>>} }

\* The effect of the message on the model mm, whatever mm holds.
AssignmentsStored(mm, msg) ==
  LET res == AfterMsg(mm, msg)
      after == res.m
  IN /\ after.Assignments = msg.assignments
     /\ after.SelectedAssignment = -1
     /\ after.AssignmentDefinitions = <<>>
     /\ after.SelectedDefinitionIDs = {}
     /\ after.PartialExemption = FALSE
     /\ after.Cursor = 0
     /\ after.Step = "StepSelectAssignment"
     /\ after.Subscriptions = mm.Subscriptions
     /\ after.SelectedSubscription = mm.SelectedSubscription
     /\ res.cmd = NoCmd
     /\ [after EXCEPT !.Status = mm.Status] =
          [mm EXCEPT !.Assignments = msg.assignments,
                     !.SelectedAssignment = -1,
                     !.AssignmentDefinitions = <<>>,
                     !.SelectedDefinitionIDs = {},
                     !.PartialExemption = FALSE,
                     !.Cursor = 0,
                     !.Step = "StepSelectAssignment"]

\* C31: handed a successful assignments message with a list that is not
\* empty, Update stores the list, sets SelectedAssignment to -1, clears the
\* definitions and the selection set, sets PartialExemption to false and
\* Cursor to 0, enters StepSelectAssignment and returns no command, leaving
\* every other field but the status as it is - in every reachable model,
\* those with definitions selected included; the model after such a message
\* was handled shows exactly that.
C31_AssignmentsStored ==
  /\ \A msg \in AssignmentsMsgs : AssignmentsStored(m, msg)
  /\ (/\ lastMsg.type = "assignmentsLoadedMsg"
      /\ lastMsg.err.nil
      /\ Len(lastMsg.assignments) > 0)
     => /\ m.Step = "StepSelectAssignment"
        /\ m.Assignments = lastMsg.assignments
        /\ m.SelectedAssignment = -1
        /\ m.AssignmentDefinitions = <<>>
        /\ m.SelectedDefinitionIDs = {}
        /\ ~m.PartialExemption
        /\ m.Cursor = 0
        /\ m.SelectedSubscription \in 0..(Len(m.Subscriptions) - 1)
        /\ lastCmd = NoCmd
        /\ inflight = <<>>

\* The two assignments of the second subscription have just been stored.
C31_Witness ==
  /\ lastMsg.type = "assignmentsLoadedMsg"
  /\ Len(lastMsg.assignments) = 2
  /\ m.Assignments = lastMsg.assignments
  /\ m.Step = "StepSelectAssignment"
  /\ m.SelectedSubscription = 1
  /\ Len(m.Subscriptions) = 2

\* Enter in StepAssignmentScope in the state mm.
EnterAtAssignmentScope(mm) ==
  LET after == AfterKey(mm, KeyEnter)
      cmd == CmdOfKey(mm, KeyEnter)
  IN IF mm.Cursor = 0
     THEN /\ ~after.PartialExemption
          /\ after.Step = "StepLoadingResourceGroups"
          /\ cmd.kind = "fetchResourceGroupsCmd"
          /\ cmd = fetchResourceGroupsCmd(At(mm.Subscriptions, mm.SelectedSubscription))
          /\ [after EXCEPT !.Status = mm.Status] =
               [mm EXCEPT !.PartialExemption = FALSE, !.Step = "StepLoadingResourceGroups"]
     ELSE /\ mm.Cursor = 1
          /\ after.PartialExemption
          /\ after.Step = "StepSelectDefinitions"
          /\ after.Cursor = 0
          /\ cmd = NoCmd
          /\ [after EXCEPT !.Status = mm.Status] =
               [mm EXCEPT !.PartialExemption = TRUE, !.Step = "StepSelectDefinitions",
                          !.Cursor = 0]

\* C32: Enter in StepAssignmentScope with the cursor on option 0 sets
\* PartialExemption to false, enters StepLoadingResourceGroups and returns
\* the resource-group fetch for the selected subscription; with the cursor
\* on option 1 it sets PartialExemption to true, enters
\* StepSelectDefinitions with Cursor 0 and returns no command.  So nothing
\* is running in StepSelectDefinitions.
C32_ScopeChoice ==
  /\ m.Step = "StepAssignmentScope" => EnterAtAssignmentScope(m)
  /\ m.Step = "StepSelectDefinitions" =>
       (m.PartialExemption /\ inflight = <<>> /\ msgs = <<>>)
  /\ (m.Step = "StepLoadingResourceGroups" /\ "StepSelectDefinitions" \notin visited) =>
       ~m.PartialExemption

\* Enter on option 1 has just opened the list of definitions.
C32_Witness ==
  /\ m.Step = "StepSelectDefinitions"
  /\ lastMsg = KeyEnter
  /\ m.PartialExemption
  /\ m.Cursor = 0
  /\ m.SelectedDefinitionIDs = {}
  /\ m.Status = <<"Select definitions to exempt (space to toggle, Enter to continue).">>

\* Enter on option 0 has started the resource-group fetch.
C32_WitnessWhole ==
  /\ m.Step = "StepLoadingResourceGroups"
  /\ "StepAssignmentScope" \in visited
  /\ "StepSelectDefinitions" \notin visited
  /\ lastMsg = KeyEnter
  /\ lastCmd.kind = "fetchResourceGroupsCmd"
  /\ inflight = <<lastCmd>>

\* Enter in StepSelectDefinitions in the state mm.
EnterAtSelectDefinitions(mm) ==
  LET after == AfterKey(mm, KeyEnter)
      cmd == CmdOfKey(mm, KeyEnter)
  IN IF mm.SelectedDefinitionIDs = {}
     THEN /\ after.Step = "StepSelectDefinitions"
          /\ after.Status = <<"Select at least one definition or choose full assignment.">>
          /\ cmd = NoCmd
          /\ [after EXCEPT !.Status = mm.Status] = mm
     ELSE /\ after.Step = "StepLoadingResourceGroups"
          /\ after.SelectedDefinitionIDs = mm.SelectedDefinitionIDs
          /\ after.PartialExemption
          /\ cmd.kind = "fetchResourceGroupsCmd"

\* C33: Enter in StepSelectDefinitions with an empty selection keeps the
\* step and returns no command; so wherever PartialExemption is true
\* outside StepSelectDefinitions - in StepLoadingResourceGroups and every
\* step after it - the selection is not empty, and a create command of a
\* partial exemption carries at least one reference id.
C33_PartialHasSelection ==
  /\ m.Step = "StepSelectDefinitions" => EnterAtSelectDefinitions(m)
  /\ (m.PartialExemption /\ m.Step # "StepSelectDefinitions") =>
       /\ m.SelectedDefinitionIDs # {}
       /\ "StepSelectDefinitions" \in visited
       /\ "StepLoadingResourceGroups" \in visited
  /\ m.PartialExemption =>
       \A i \in 1..Len(inflight) :
          inflight[i].kind = "createExemptionCmd" => inflight[i].selectedDefinitionIDs # {}

\* Enter has just left the list of definitions with both of them selected.
C33_Witness ==
  /\ m.Step = "StepLoadingResourceGroups"
  /\ "StepSelectDefinitions" \in visited
  /\ lastMsg = KeyEnter
  /\ m.PartialExemption
  /\ Cardinality(m.SelectedDefinitionIDs) = 2

\* Enter has just been refused on an empty selection.
C33_WitnessRefused ==
  /\ m.Step = "StepSelectDefinitions"
  /\ lastMsg = KeyEnter
  /\ m.SelectedDefinitionIDs = {}
  /\ m.Status = <<"Select at least one definition or choose full assignment.">>

\* The flag is among the arguments.
HasFlag(args, flag) == \E i \in 1..Len(args) : args[i].flag = flag

\* What follows the flag.
ValuesOf(args, flag) == args[CHOOSE i \in 1..Len(args) : args[i].flag = flag].values

EndOfDaySuffix == <<"T","2","3",":","5","9",":","5","9","Z">>

\* The two optional arguments of the command line args built from the
\* reference ids and the expiration date.
OptionalArguments(args, referenceIDs, expirationDate) ==
  /\ HasFlag(args, "--expires-on") <=> (expirationDate # <<>>)
  /\ (expirationDate # <<>> /\ timeParseOK(expirationDate)) =>
       ValuesOf(args, "--expires-on") = expirationDate \o EndOfDaySuffix
  /\ HasFlag(args, "--policy-definition-reference-ids") <=> (referenceIDs # {})
  /\ referenceIDs # {} =>
       ValuesOf(args, "--policy-definition-reference-ids") = referenceIDs
  /\ (expirationDate = <<>> /\ referenceIDs = {}) => Len(args) = 8

\* Of CreateExemption itself, on dates and reference ids of every kind.
CreateExemptionExamples ==
  \A date \in {<<>>, ValidDate, LeapDay} \cup PrefillDates,
     refs \in SUBSET {DefPool[i].ReferenceID : i \in 1..MaxDefs} :
     OptionalArguments(
       CreateExemptionArgs(<<"", "subscriptions", "a">>, AssignmentPool[1], refs,
                           <<"a">>, <<"a">>, date),
       refs, date)

\* C34: the command line of CreateExemption has --expires-on exactly when
\* the expiration date is not empty, followed by that day at 23:59:59, and
\* --policy-definition-reference-ids exactly when there is at least one
\* reference id, followed by the ids; with no date and no ids it has
\* neither.  So the az command the wizard ran carries the expiry exactly
\* when an expiration date is stored and the reference ids exactly when
\* definitions are selected.
C34_OptionalArguments ==
  /\ CreateExemptionExamples
  /\ azArgs # <<>> =>
       /\ m.Step \in {"StepCreating", "StepDone", "StepError"}
       /\ OptionalArguments(azArgs, m.SelectedDefinitionIDs, m.ExpirationDate)
       /\ ~m.PartialExemption => ~HasFlag(azArgs, "--policy-definition-reference-ids")
  /\ \A i \in 1..Len(inflight) :
       inflight[i].kind = "createExemptionCmd" =>
          OptionalArguments(runCreateExemptionArgs(inflight[i]), m.SelectedDefinitionIDs,
                            m.ExpirationDate)

\* The exemption was created with an expiration date and for one selected
\* definition.
C34_Witness ==
  /\ m.Step = "StepDone"
  /\ HasFlag(azArgs, "--expires-on")
  /\ HasFlag(azArgs, "--policy-definition-reference-ids")
  /\ Len(azArgs) = 10
  /\ Cardinality(m.SelectedDefinitionIDs) = 1

\* The exemption was created without an expiration date and for the whole
\* assignment.
C34_WitnessNeither ==
  /\ m.Step = "StepDone"
  /\ Len(azArgs) = 8
  /\ m.ExpirationDate = <<>>
  /\ ~m.PartialExemption

\* A command runs, and its message waits, only in the loading step of its
\* kind.
OperationInOwnStep ==
  /\ \A i \in 1..Len(inflight) :
       m.Step \in LoadingSteps /\ inflight[i].kind = KindFor(m.Step)
  /\ \A i \in 1..Len(msgs) :
       m.Step \in LoadingSteps /\ msgs[i].type = TypeFor(KindFor(m.Step))
  /\ m.Step \notin LoadingSteps => (inflight = <<>> /\ msgs = <<>>)

CompletionInOwnStep ==
  (IsDeliverStep \/ (lastMsg' # lastMsg /\ lastMsg'.type \in CompletionTypes)) =>
     /\ m.Step \in LoadingSteps
     /\ lastMsg'.type = TypeFor(KindFor(m.Step))
     /\ m'.Step # m.Step
     /\ m'.Step \in Successors(m.Step)

\* Update looks at the message only: handed an assignments message it
\* stores the list whatever the step of the model.
UpdateIgnoresStep ==
  \A msg \in AssignmentsMsgs : AfterMsg(m, msg).m.Step = "StepSelectAssignment"

\* C35: a completion message is handed to Update only while the model is in
\* the loading step of the message's kind (subscriptions in
\* StepLoadingSubscriptions, ..., the created exemption in StepCreating),
\* and handling it leaves that step; outside the loading steps no command
\* runs and no message waits.  Update would apply the message in any step.
C35_CompletionInOwnStep ==
  [](OperationInOwnStep /\ UpdateIgnoresStep) /\ [][CompletionInOwnStep]_vars

\* The resource groups have just been stored, the fourth message handled.
C35_Witness ==
  /\ lastMsg.type = "resourceGroupsLoadedMsg"
  /\ lastMsg.err.nil
  /\ m.Step = "StepSelectResourceGroup"
  /\ Cardinality(events) = 4
  /\ inflight = <<>>
  /\ msgs = <<>>

\* i is an index of the Go slice list.
InRange(i, list) == i >= 0 /\ i < Len(list)

MissingInformation == <<"Missing information. Use q to abort.">>

\* C36: in StepConfirm the three selections are indices of their lists and
\* Ticket and RequestUser are not empty; so Enter there always enters
\* StepCreating, the "missing information" status never appears, and
\* m.ResourceGroups[m.SelectedResourceGroup], read unchecked by View and by
\* the "enter" case of StepConfirm, is in range.
C36_ConfirmComplete ==
  /\ m.Step = "StepConfirm" =>
       /\ InRange(m.SelectedSubscription, m.Subscriptions)
       /\ InRange(m.SelectedAssignment, m.Assignments)
       /\ InRange(m.SelectedResourceGroup, m.ResourceGroups)
       /\ m.Ticket # <<>>
       /\ m.RequestUser # <<>>
       /\ Prerequisites(m)
       /\ AfterKey(m, KeyEnter).Step = "StepCreating"
       /\ AfterKey(m, KeyEnter).Status # MissingInformation
       /\ CmdOfKey(m, KeyEnter).scope = m.ResourceGroups[m.SelectedResourceGroup + 1].ID
  /\ m.Status # MissingInformation

\* StepConfirm with the last entry of every list selected.
C36_Witness ==
  /\ m.Step = "StepConfirm"
  /\ Len(m.Subscriptions) = 2
  /\ m.SelectedSubscription = 1
  /\ Len(m.Assignments) = 2
  /\ m.SelectedAssignment = 1
  /\ Len(m.ResourceGroups) = 2
  /\ m.SelectedResourceGroup = 1

\* C37: in StepSelectAssignment the list of assignments is not empty, in
\* StepSelectResourceGroup the list of resource groups is not empty, in
\* StepAssignmentScope and StepSelectDefinitions there are at least two
\* definitions; so Enter in the select steps and the toggle never take
\* their len(...) == 0 return (Enter always leaves the step or, on an empty
\* selection, sets the status; space always flips the definition under the
\* cursor), and the cursor is an index of AssignmentDefinitions.
C37_ListsNotEmpty ==
  /\ m.Step = "StepSelectAssignment" =>
       /\ Len(m.Assignments) >= 1
       /\ AfterKey(m, KeyEnter).Step = "StepLoadingAssignmentDefinitions"
  /\ m.Step = "StepSelectResourceGroup" =>
       /\ Len(m.ResourceGroups) >= 1
       /\ m.ResourceGroups[1].Name = "Entire Subscription"
       /\ AfterKey(m, KeyEnter).Step = "StepTicket"
  /\ m.Step \in {"StepAssignmentScope", "StepSelectDefinitions"} =>
       Len(m.AssignmentDefinitions) >= 2
  /\ m.Step = "StepSelectDefinitions" =>
       /\ InRange(m.Cursor, m.AssignmentDefinitions)
       /\ AfterKey(m, KeySpace).SelectedDefinitionIDs =
            Flipped(m.SelectedDefinitionIDs, RefAtCursor(m))
       /\ AfterKey(m, KeySpace).SelectedDefinitionIDs # m.SelectedDefinitionIDs
       /\ \/ AfterKey(m, KeyEnter).Step = "StepLoadingResourceGroups"
          \/ AfterKey(m, KeyEnter).Status =
               <<"Select at least one definition or choose full assignment.">>

\* The second of two definitions has just been selected with the space
\* key.
C37_Witness ==
  /\ m.Step = "StepSelectDefinitions"
  /\ Len(m.AssignmentDefinitions) = 2
  /\ m.Cursor = 1
  /\ lastMsg = KeySpace
  /\ m.SelectedDefinitionIDs = {m.AssignmentDefinitions[2].ReferenceID}

\* The resource-group step shows the subscription entry alone.
C37_WitnessSubscriptionOnly ==
  /\ m.Step = "StepSelectResourceGroup"
  /\ Len(m.ResourceGroups) = 1
  /\ lastMsg.type = "resourceGroupsLoadedMsg"
  /\ lastMsg.resourceGroups = <<>>

FinalSteps == {"StepDone", "StepError"}

\* The error is set exactly in StepError, and an output is stored only in
\* StepDone.
ErrorAndOutputInPlace ==
  /\ ~m.Err.nil <=> m.Step = "StepError"
  /\ m.CreateOutput # "" => m.Step = "StepDone"
  /\ m.Step = "StepDone" => m.Err.nil
  /\ m.Step = "StepError" => m.CreateOutput = ""
  /\ m.Step \in FinalSteps =>
       /\ inflight = <<>>
       /\ msgs = <<>>
       /\ \A key \in NonQuitKeys \cup QuitKeys : AfterKey(m, key) = m
       /\ \A key \in NonQuitKeys : CmdOfKey(m, key) = NoCmd

\* Once in StepDone or StepError the model stays as it is and no command
\* is started.
FinalStepsAbsorbing ==
  m.Step \in FinalSteps =>
     /\ m' = m
     /\ inflight' = inflight
     /\ msgs' = msgs
     /\ pager' = pager
     /\ azArgs' = azArgs

\* C38: the error is set exactly when the step is StepError and
\* CreateOutput is not empty only in StepDone; in StepDone and StepError no
\* event changes a field of the model (a quit key changes none either, it
\* only ends the program) and nothing is running or waiting.
C38_FinalSteps == [](ErrorAndOutputInPlace) /\ [][FinalStepsAbsorbing]_vars

\* The wizard is done and the space key was pressed afterwards.
C38_Witness ==
  /\ m.Step = "StepDone"
  /\ m.CreateOutput = "exemption-json"
  /\ m.Err.nil
  /\ lastMsg = KeySpace
  /\ ~quitPending

\* The list of assignments failed to load and a key was pressed in
\* StepError.
C38_WitnessError ==
  /\ m.Step = "StepError"
  /\ m.Err = Errorf(<<"failed to list policy assignments">>)
  /\ lastMsg = KeySpace
  /\ m.CreateOutput = ""

\* The command was given the selected subscription (the selected
\* assignment), the selection being an index of the list.
GivenSelection(mm, cmd) ==
  /\ cmd.kind \in {"fetchAssignmentsCmd", "fetchResourceGroupsCmd"} =>
       /\ InRange(mm.SelectedSubscription, mm.Subscriptions)
       /\ cmd.sub = mm.Subscriptions[mm.SelectedSubscription + 1]
       /\ cmd.sub # EmptySubscription
  /\ cmd.kind \in {"fetchAssignmentDefinitionsCmd", "createExemptionCmd"} =>
       /\ InRange(mm.SelectedAssignment, mm.Assignments)
       /\ cmd.assignment = mm.Assignments[mm.SelectedAssignment + 1]
       /\ cmd.assignment # EmptyAssignment

\* The definitions messages without an error.
DefinitionsMsgs ==
  { [Msg("assignmentDefinitionsLoadedMsg") EXCEPT !.definitions = l] :
      l \in Prefixes(DefPool, MaxDefs) }

\* What Update returns for Enter in the state mm, and in
\* StepLoadingAssignmentDefinitions for a definitions message: a command,
\* if any, for the selection of the model returned with it.
SchedulesForSelection(mm) ==
  /\ LET res == AfterMsg(mm, KeyEnter)
     IN GivenSelection(res.m, res.cmd)
  /\ mm.Step = "StepLoadingAssignmentDefinitions" =>
       \A msg \in DefinitionsMsgs :
          LET res == AfterMsg(mm, msg)
          IN GivenSelection(res.m, res.cmd)

\* C39: every fetch of assignments or resource groups is returned with
\* SelectedSubscription an index of the list and is given the subscription
\* at that index, every fetch of definitions and every create command with
\* SelectedAssignment an index and the assignment at that index; so
\* CurrentSubscription and CurrentAssignment never fall back to the first
\* entry or to the empty value there.  Once a subscription (an assignment)
\* was selected the index stays valid.
C39_SelectionPassed ==
  /\ GivenSelection(m, lastCmd)
  /\ \A i \in 1..Len(inflight) : GivenSelection(m, inflight[i])
  /\ SchedulesForSelection(m)
  /\ "StepLoadingAssignments" \in visited =>
       InRange(m.SelectedSubscription, m.Subscriptions)
  /\ "StepLoadingAssignmentDefinitions" \in visited =>
       InRange(m.SelectedAssignment, m.Assignments)

\* The definitions message has started the resource-group fetch for the
\* second subscription.
C39_Witness ==
  /\ lastMsg.type = "assignmentDefinitionsLoadedMsg"
  /\ lastCmd.kind = "fetchResourceGroupsCmd"
  /\ m.SelectedSubscription = 1
  /\ Len(m.Subscriptions) = 2
  /\ lastCmd.sub = m.Subscriptions[2]
  /\ lastCmd.sub # m.Subscriptions[1]

====
